---- MODULE Spec2Model ----
(***************************************************************************)
(* Model of the retirement-manager UI: the typed API client                *)
(* (src/api/client.ts), the duration / eligibility computation of the      *)
(* marriage and employment items, the query keys and their invalidation,   *)
(* the four form dialogs, the queries of the list views, the profile     *)
(* page, and the keyboard handling of the dialogs.                         *)
(***************************************************************************)
EXTENDS Integers, Sequences, FiniteSets, TLC

VARIABLES
    pc,          \* position of the running request(): "idle", "awaitFetch",
                 \* "awaitErrorJson", "awaitJson", "settled"
    endpoint,    \* endpoint argument of the running request()
    options,     \* options argument (RequestInit) of the running request()
    response,    \* the Response fetch resolved with (NoResponse before that)
    bodyRead,    \* TRUE once response.json() has been called
    result,      \* the settled promise of request() (Pending before that)
    callCount,   \* number of client calls made so far
    fetchCount,  \* number of times fetch() was invoked so far
    lastFetch,   \* arguments of the latest fetch() invocation
    marriage,    \* the ApiMarriage record handed to MarriageItem (or NoRecord)
    employment,  \* the ApiEmployment record handed to EmploymentItem (or NoRecord)
    clock,       \* the Date that new Date() returned to the render (or NotRead)
    item,        \* what MarriageItem computed (NotRendered before that)
    tenure,      \* what EmploymentItem computed (NotRendered before that)
    cache,       \* the query cache: query key -> "fresh" or "stale"
    lastInvalidate, \* key given to the latest invalidateQueries (<<>>: none)
    formKind,    \* the form component the dialog shows
    isEditing,   \* TRUE when the form was given an entity to update
    isModalOpen, \* TRUE while the parent view renders the form dialog
    fields,      \* the field values the form keeps with useState
    errors,      \* the FormErrors object of the form: field -> message
    mutation,    \* status of the form's mutation: "idle", "pending",
                 \* "success" or "error"
    orphans,     \* the requests in flight whose form was unmounted
                 \* meanwhile: for each, the isEditing of its form
    calls,       \* what the latest event handler called: the mutate call,
                 \* the onSuccess / onClose props, invalidateQueries, and
                 \* the requests a list view's queries sent (fetch)
    view,        \* the page the browser shows ("none": not loaded yet)
    queries,     \* the queries of that page: name -> status, fetching,
                 \* data (as useQuery returns them)
    profilePerson, \* the ApiPerson PersonDetail renders (or NoRecord)
    profile,     \* what PersonDetail computed for the person (NotRendered
                 \* before that)
    dialog,      \* the dialog a view has mounted: its component and whether
                 \* it edits an entity (NoDialog: none)
    showEmployerForm, \* AddEmploymentForm's state: the nested EmployerForm
                 \* is mounted
    showEndDate, \* the dialog renders its End Date picker
    isPending,   \* the mounted dialogs whose mutation is pending
    listeners,   \* the keydown listeners of document in the order they
                 \* were added: owner and the showEmployerForm of the closure
    activeElement \* document.activeElement: <<component, element>>

clientVars == <<pc, endpoint, options, response, bodyRead, result, callCount,
                fetchCount, lastFetch>>
viewVars == <<marriage, employment, clock, item, tenure>>
cacheVars == <<cache, lastInvalidate>>
formVars == <<formKind, isEditing, isModalOpen, fields, errors, mutation,
              orphans, calls>>
listVars == <<view, queries>>
pageVars == <<profilePerson, profile, dialog, showEmployerForm, showEndDate,
              isPending, listeners, activeElement>>
uiVars == <<cacheVars, formVars, listVars, pageVars>>
vars == <<pc, endpoint, options, response, bodyRead, result, callCount,
          fetchCount, lastFetch, marriage, employment, clock, item, tenure,
          uiVars>>

-----------------------------------------------------------------------------
(* Bounds of the model *)

\* number of client calls made one after the other
MaxCalls == 2
\* record and clock dates range over BaseYear .. BaseYear + MaxYearSpan
BaseYear == 2010
MaxYearSpan == 14

-----------------------------------------------------------------------------
(* JavaScript values *)

Undefined == [t |-> "undefined"]
JsonNull == [t |-> "null"]
JsonNumber(n) == [t |-> "number", v |-> n]
JsonString(s) == [t |-> "string", v |-> s]
JsonObject(f) == [t |-> "object", fields |-> f]
EmptyObject == JsonObject(<<>>)
\* a response body that is not JSON (HTML, plain text, empty)
NotJson == [t |-> "text"]

\* property read  value.key  on a JavaScript value; reading a property of
\* null throws a TypeError, of a primitive yields undefined
CanReadProperty(value) == value.t \notin {"null", "undefined"}
GetProperty(value, key) ==
    IF value.t = "object" /\ key \in DOMAIN value.fields
    THEN value.fields[key]
    ELSE Undefined

\* JavaScript truthiness of the values the model uses
Truthy(value) ==
    CASE value.t = "undefined" -> FALSE
      [] value.t = "null" -> FALSE
      [] value.t = "string" -> value.v # ""
      [] value.t = "number" -> value.v # 0
      [] OTHER -> TRUE

Pending == [state |-> "pending"]
Fulfilled(v) == [state |-> "fulfilled", value |-> v]
Rejected(e) == [state |-> "rejected", reason |-> e]

-----------------------------------------------------------------------------
(* src/api/client.ts *)

API_BASE_URL == "/api/v1"

ApiError(message, status, statusText, data) ==
    [name |-> "ApiError", message |-> message, status |-> status,
     statusText |-> statusText, data |-> data]

TypeError(message) == [name |-> "TypeError", message |-> message]
SyntaxError(message) == [name |-> "SyntaxError", message |-> message]

\* Response.ok
ResponseOk(r) == r.status >= 200 /\ r.status <= 299

\* Response.json(): the promise it returns
ResponseJson(r) ==
    IF r.body.t = "text"
    THEN Rejected(SyntaxError("Unexpected token"))
    ELSE Fulfilled(r.body)

\* response.json().catch(() => ({}))
ErrorData(r) ==
    IF ResponseJson(r).state = "rejected" THEN EmptyObject
    ELSE ResponseJson(r).value

\* url = `${API_BASE_URL}${endpoint}`
RequestUrl(ep) == API_BASE_URL \o ep

\* headers: { 'Content-Type': 'application/json', ...options.headers }
RequestHeaders(opts) ==
    [h \in {"Content-Type"} \cup DOMAIN opts.headers |->
        IF h \in DOMAIN opts.headers THEN opts.headers[h] ELSE "application/json"]

\* errorData.message || `Request failed: ${response.status}`
ErrorMessage(errorData, status) ==
    IF Truthy(GetProperty(errorData, "message"))
    THEN GetProperty(errorData, "message").v
    ELSE "Request failed: " \o ToString(status)

\* the throw statement of the !response.ok branch, errorData being parsed
ThrowApiError(r, errorData) ==
    IF CanReadProperty(errorData)
    THEN Rejected(ApiError(ErrorMessage(errorData, r.status), r.status,
                           r.statusText, errorData))
    ELSE Rejected(TypeError("Cannot read properties of null (reading 'message')"))

\* RequestInit built by the api helpers
GetOptions == [method |-> "GET", hasBody |-> FALSE, headers |-> <<>>]
PostOptions == [method |-> "POST", hasBody |-> TRUE, headers |-> <<>>]
PutOptions == [method |-> "PUT", hasBody |-> TRUE, headers |-> <<>>]
PatchOptions == [method |-> "PATCH", hasBody |-> TRUE, headers |-> <<>>]
DeleteOptions == [method |-> "DELETE", hasBody |-> FALSE, headers |-> <<>>]

NoResponse == [status |-> 0, statusText |-> "", body |-> NotJson]
NoFetch == [url |-> "", method |-> "", headers |-> <<>>]

\* endpoints, statuses and bodies the environment draws from
Endpoints == {"/test", "/persons"}
Statuses == {200, 201, 204, 304, 404, 500}
StatusTexts == {"Not Found", "Internal Server Error"}
Bodies ==
    { NotJson, JsonNull, JsonNumber(5), JsonString("oops"), EmptyObject,
      JsonObject("message" :> JsonString("")),
      JsonObject("message" :> JsonString("not found")),
      JsonObject(("message" :> JsonString("Invalid input"))
                 @@ ("errors" :> JsonString("field required"))) }
Responses == [status : Statuses, statusText : StatusTexts, body : Bodies]

\* request(endpoint, options) up to its first await: fetch is invoked
Request(ep, opts) ==
    /\ pc \in {"idle", "settled"}
    /\ callCount < MaxCalls
    /\ pc' = "awaitFetch"
    /\ endpoint' = ep
    /\ options' = opts
    /\ response' = NoResponse
    /\ bodyRead' = FALSE
    /\ result' = Pending
    /\ callCount' = callCount + 1
    /\ fetchCount' = fetchCount + 1
    /\ lastFetch' = [url |-> RequestUrl(ep), method |-> opts.method,
                     headers |-> RequestHeaders(opts)]

ApiGet == \E ep \in Endpoints : Request(ep, GetOptions) /\ UNCHANGED <<viewVars, uiVars>>
ApiPost == \E ep \in Endpoints : Request(ep, PostOptions) /\ UNCHANGED <<viewVars, uiVars>>
ApiPut == \E ep \in Endpoints : Request(ep, PutOptions) /\ UNCHANGED <<viewVars, uiVars>>
ApiPatch == \E ep \in Endpoints : Request(ep, PatchOptions) /\ UNCHANGED <<viewVars, uiVars>>
ApiDelete == \E ep \in Endpoints : Request(ep, DeleteOptions) /\ UNCHANGED <<viewVars, uiVars>>

\* AfterFetch without the 204 branch: the body of a 204 response is read too
AfterFetch_No204(r) ==
    IF ~ResponseOk(r)
    THEN [pc |-> "awaitErrorJson", bodyRead |-> TRUE, result |-> Pending]
    ELSE [pc |-> "awaitJson", bodyRead |-> TRUE, result |-> Pending]

\* what request() does when fetch resolves with r, up to its next await
AfterFetch(r) ==
    IF ~ResponseOk(r)
    THEN [pc |-> "awaitErrorJson", bodyRead |-> TRUE, result |-> Pending]
    ELSE IF r.status = 204
    THEN [pc |-> "settled", bodyRead |-> FALSE, result |-> Fulfilled(Undefined)]
    ELSE [pc |-> "awaitJson", bodyRead |-> TRUE, result |-> Pending]

\* fetch resolves with a response
FetchResolves ==
    /\ pc = "awaitFetch"
    /\ \E r \in Responses :
        /\ response' = r
        /\ pc' = AfterFetch(r).pc
        /\ bodyRead' = AfterFetch(r).bodyRead
        /\ result' = AfterFetch(r).result
    /\ UNCHANGED <<endpoint, options, callCount, fetchCount, lastFetch>>
    /\ UNCHANGED <<viewVars, uiVars>>

\* FetchRejects with a retry: a failed fetch is issued once more
FetchRejects_Retry ==
    /\ pc = "awaitFetch"
    /\ fetchCount <= callCount
    /\ fetchCount' = fetchCount + 1
    /\ UNCHANGED <<pc, endpoint, options, response, bodyRead, result,
                   callCount, lastFetch>>
    /\ UNCHANGED <<viewVars, uiVars>>

\* fetch rejects (network failure): the rejection propagates out of request()
FetchRejects ==
    /\ pc = "awaitFetch"
    /\ pc' = "settled"
    /\ result' = Rejected(TypeError("Failed to fetch"))
    /\ UNCHANGED <<endpoint, options, response, bodyRead, callCount,
                   fetchCount, lastFetch>>
    /\ UNCHANGED <<viewVars, uiVars>>

\* the error body is parsed (or the parse failed) and request() throws
ErrorBodyParsed ==
    /\ pc = "awaitErrorJson"
    /\ pc' = "settled"
    /\ result' = ThrowApiError(response, ErrorData(response))
    /\ UNCHANGED <<endpoint, options, response, bodyRead, callCount,
                   fetchCount, lastFetch>>
    /\ UNCHANGED <<viewVars, uiVars>>

\* return response.json(): request() settles as that promise does
BodyParsed ==
    /\ pc = "awaitJson"
    /\ pc' = "settled"
    /\ result' = ResponseJson(response)
    /\ UNCHANGED <<endpoint, options, response, bodyRead, callCount,
                   fetchCount, lastFetch>>
    /\ UNCHANGED <<viewVars, uiVars>>

-----------------------------------------------------------------------------
(* Dates *)

\* a date string "YYYY-MM-DD" (month 1..12)
IsoDate(y, m, d) == [t |-> "date", y |-> y, m |-> m, d |-> d]

\* new Date(dateString + 'T00:00:00'): local midnight of that day, read back
\* with getFullYear(), getMonth() (0..11) and getDate()
NewDate(iso) == [fullYear |-> iso.y, month |-> iso.m - 1, date |-> iso.d]

\* chronological order of two Date values
DateBefore(a, b) ==
    \/ a.fullYear < b.fullYear
    \/ a.fullYear = b.fullYear /\ a.month < b.month
    \/ a.fullYear = b.fullYear /\ a.month = b.month /\ a.date < b.date

Years == BaseYear .. (BaseYear + MaxYearSpan)
Months == 1 .. 12
Days == {10, 15, 20}
IsoDates == {IsoDate(y, m, d) : y \in Years, m \in Months, d \in Days}

NoRecord == [t |-> "none"]
NotRead == [t |-> "notRead"]
NotRendered == [rendered |-> FALSE]
\* no dialog is mounted
NoDialog == [kind |-> "none", isEditing |-> FALSE]
\* document.body: the focus is on no element of a dialog
Body == <<"document", "body">>

-----------------------------------------------------------------------------
(* src/features/marriage/MarriageHistory.tsx *)

SS_ELIGIBILITY_YEARS == 10

\* calculateDuration with the operands of the month difference swapped
calculateDuration_SwappedMonths(startDate, endDate, now) ==
    LET start == NewDate(startDate)
        end == IF Truthy(endDate) THEN NewDate(endDate) ELSE now
        years0 == end.fullYear - start.fullYear
        months0 == start.month - end.month
        years1 == IF months0 < 0 THEN years0 - 1 ELSE years0
        months1 == IF months0 < 0 THEN months0 + 12 ELSE months0
        months2 == IF end.date < start.date THEN months1 - 1 ELSE months1
        borrow == end.date < start.date /\ months2 < 0
        years == IF borrow THEN years1 - 1 ELSE years1
        months == IF borrow THEN months2 + 12 ELSE months2
    IN  [years |-> years, months |-> months, totalMonths |-> years * 12 + months]

\* calculateDuration without the day-of-month adjustment
calculateDuration_NoDayAdjust(startDate, endDate, now) ==
    LET start == NewDate(startDate)
        end == IF Truthy(endDate) THEN NewDate(endDate) ELSE now
        years0 == end.fullYear - start.fullYear
        months0 == end.month - start.month
        years == IF months0 < 0 THEN years0 - 1 ELSE years0
        months == IF months0 < 0 THEN months0 + 12 ELSE months0
    IN  [years |-> years, months |-> months, totalMonths |-> years * 12 + months]

\* calculateDuration with the day-of-month test written <= instead of <
calculateDuration_DayLessOrEqual(startDate, endDate, now) ==
    LET start == NewDate(startDate)
        end == IF Truthy(endDate) THEN NewDate(endDate) ELSE now
        years0 == end.fullYear - start.fullYear
        months0 == end.month - start.month
        years1 == IF months0 < 0 THEN years0 - 1 ELSE years0
        months1 == IF months0 < 0 THEN months0 + 12 ELSE months0
        months2 == IF end.date <= start.date THEN months1 - 1 ELSE months1
        borrow == end.date <= start.date /\ months2 < 0
        years == IF borrow THEN years1 - 1 ELSE years1
        months == IF borrow THEN months2 + 12 ELSE months2
    IN  [years |-> years, months |-> months, totalMonths |-> years * 12 + months]

\* calculateDuration clamping a negative duration to zero
calculateDuration_ClampedAtZero(startDate, endDate, now) ==
    LET start == NewDate(startDate)
        end == IF Truthy(endDate) THEN NewDate(endDate) ELSE now
        years0 == end.fullYear - start.fullYear
        months0 == end.month - start.month
        years1 == IF months0 < 0 THEN years0 - 1 ELSE years0
        months1 == IF months0 < 0 THEN months0 + 12 ELSE months0
        months2 == IF end.date < start.date THEN months1 - 1 ELSE months1
        borrow == end.date < start.date /\ months2 < 0
        years == IF borrow THEN years1 - 1 ELSE years1
        months == IF borrow THEN months2 + 12 ELSE months2
    IN  IF years < 0
        THEN [years |-> 0, months |-> 0, totalMonths |-> 0]
        ELSE [years |-> years, months |-> months,
              totalMonths |-> years * 12 + months]

\* calculateDuration(startDate, endDate); now is what new Date() returns
calculateDuration(startDate, endDate, now) ==
    LET start == NewDate(startDate)
        end == IF Truthy(endDate) THEN NewDate(endDate) ELSE now
        years0 == end.fullYear - start.fullYear
        months0 == end.month - start.month
        years1 == IF months0 < 0 THEN years0 - 1 ELSE years0
        months1 == IF months0 < 0 THEN months0 + 12 ELSE months0
        months2 == IF end.date < start.date THEN months1 - 1 ELSE months1
        borrow == end.date < start.date /\ months2 < 0
        years == IF borrow THEN years1 - 1 ELSE years1
        months == IF borrow THEN months2 + 12 ELSE months2
    IN  [years |-> years, months |-> months, totalMonths |-> years * 12 + months]

\* a JavaScript number kept exact, as the fraction num / den (den > 0)
Fraction(num, den) == [num |-> num, den |-> den]

\* Math.min(x, n) of a fraction x and an integer n
MathMin(x, n) == IF x.num <= n * x.den THEN x ELSE Fraction(n * x.den, x.den)

\* Math.round(x): the nearest integer, halves rounded up
MathRound(x) == (2 * x.num + x.den) \div (2 * x.den)

\* Math.min((totalMonths / thresholdMonths) * 100, 100)
ProgressPercent(totalMonths, thresholdMonths) ==
    MathMin(Fraction(totalMonths * 100, thresholdMonths), 100)

\* IsEligible with > written for >=
IsEligible_Strict(totalMonths, thresholdMonths) == totalMonths > thresholdMonths

\* totalMonths >= thresholdMonths
IsEligible(totalMonths, thresholdMonths) == totalMonths >= thresholdMonths

\* what MarriageItem computes and shows for a marriage
MarriageItem(m, now) ==
    LET duration == calculateDuration(m.marriageDate, m.endDate, now)
        thresholdMonths == SS_ELIGIBILITY_YEARS * 12
        progressPercent == ProgressPercent(duration.totalMonths, thresholdMonths)
    IN  [rendered |-> TRUE,
         years |-> duration.years,
         months |-> duration.months,
         totalMonths |-> duration.totalMonths,
         progressPercent |-> progressPercent,
         isEligible |-> IsEligible(duration.totalMonths, thresholdMonths),
         ariaValueNow |-> MathRound(progressPercent),
         ariaValueMin |-> 0,
         ariaValueMax |-> 100]

\* MarriageItem renders; the clock is read only when the record has no end date
RenderMarriageItem ==
    /\ marriage # NoRecord
    /\ ~item.rendered
    /\ IF Truthy(marriage.endDate)
       THEN /\ clock' = NotRead
            /\ item' = MarriageItem(marriage, NotRead)
       ELSE \E today \in IsoDates :
            /\ clock' = NewDate(today)
            /\ item' = MarriageItem(marriage, NewDate(today))
    /\ UNCHANGED <<marriage, employment, tenure>>
    /\ UNCHANGED <<clientVars, uiVars>>

-----------------------------------------------------------------------------
(* src/features/employment/EmploymentList.tsx *)

\* calculateDuration(startDate, endDate) of EmploymentList.tsx
EmploymentList_calculateDuration(startDate, endDate, now) ==
    LET start == NewDate(startDate)
        end == IF Truthy(endDate) THEN NewDate(endDate) ELSE now
        years0 == end.fullYear - start.fullYear
        months0 == end.month - start.month
        years1 == IF months0 < 0 THEN years0 - 1 ELSE years0
        months1 == IF months0 < 0 THEN months0 + 12 ELSE months0
        months2 == IF end.date < start.date THEN months1 - 1 ELSE months1
        borrow == end.date < start.date /\ months2 < 0
        years == IF borrow THEN years1 - 1 ELSE years1
        months == IF borrow THEN months2 + 12 ELSE months2
    IN  [years |-> years, months |-> months]

\* what EmploymentItem computes for an employment
EmploymentItem(e, now) ==
    LET duration == EmploymentList_calculateDuration(e.startDate, e.endDate, now)
    IN  [rendered |-> TRUE, years |-> duration.years, months |-> duration.months]

RenderEmploymentItem ==
    /\ employment # NoRecord
    /\ ~tenure.rendered
    /\ IF Truthy(employment.endDate)
       THEN /\ clock' = NotRead
            /\ tenure' = EmploymentItem(employment, NotRead)
       ELSE \E today \in IsoDates :
            /\ clock' = NewDate(today)
            /\ tenure' = EmploymentItem(employment, NewDate(today))
    /\ UNCHANGED <<marriage, employment, item>>
    /\ UNCHANGED <<clientVars, uiVars>>

InitClient ==
    /\ pc = "idle"
    /\ endpoint = ""
    /\ options = GetOptions
    /\ response = NoResponse
    /\ bodyRead = FALSE
    /\ result = Pending
    /\ callCount = 0
    /\ fetchCount = 0
    /\ lastFetch = NoFetch

InitViews ==
    /\ marriage = NoRecord
    /\ employment = NoRecord
    /\ clock = NotRead
    /\ item = NotRendered
    /\ tenure = NotRendered

\* a new QueryClient holds no query
InitCache ==
    /\ cache = <<>>
    /\ lastInvalidate = <<>>

\* no form dialog is open
NoFields == [t |-> "unmounted"]
InitForms ==
    /\ formKind = "none"
    /\ isEditing = FALSE
    /\ isModalOpen = FALSE
    /\ fields = NoFields
    /\ errors = <<>>
    /\ mutation = "idle"
    /\ orphans = <<>>
    /\ calls = <<>>

\* no page is loaded
InitUi ==
    /\ InitCache
    /\ InitForms
    /\ view = "none"
    /\ queries = <<>>
    /\ profilePerson = NoRecord
    /\ profile = NotRendered
    /\ dialog = NoDialog
    /\ showEmployerForm = FALSE
    /\ showEndDate = FALSE
    /\ isPending = {}
    /\ listeners = <<>>
    /\ activeElement = Body

ClientInit == InitClient /\ InitViews /\ InitUi

ClientNext ==
    \/ ApiGet
    \/ ApiPost
    \/ ApiPut
    \/ ApiPatch
    \/ ApiDelete
    \/ FetchResolves
    \/ FetchRejects
    \/ ErrorBodyParsed
    \/ BodyParsed

ClientSpec == ClientInit /\ [][ClientNext]_vars

\* the records the backend can hand to the list views
Marriages == [marriageDate : IsoDates, endDate : IsoDates \cup {Undefined}]
Employments == [startDate : IsoDates, endDate : IsoDates \cup {Undefined}]

DurationInit ==
    /\ InitClient
    /\ \/ marriage \in Marriages /\ employment = NoRecord
       \/ marriage = NoRecord /\ employment \in Employments
    /\ clock = NotRead
    /\ item = NotRendered
    /\ tenure = NotRendered
    /\ InitUi

DurationNext ==
    \/ RenderMarriageItem
    \/ RenderEmploymentItem

DurationSpec == DurationInit /\ [][DurationNext]_vars

-----------------------------------------------------------------------------
(* Properties of the API client, checked under ClientSpec *)

\* request() has settled after fetch resolved with a response that is not ok
HttpFailureSettled ==
    pc = "settled" /\ response # NoResponse /\ ~ResponseOk(response)

\* request() has settled after fetch resolved with an ok response
HttpSuccessSettled ==
    pc = "settled" /\ response # NoResponse /\ ResponseOk(response)

\* C1: for every response that is not 2xx, whatever its body, the call
\* rejects with an ApiError carrying the response's status and status text
\* and the parsed error body (the empty object when it cannot be parsed).
C1_RejectsWithApiError ==
    HttpFailureSettled =>
        /\ result.state = "rejected"
        /\ result.reason.name = "ApiError"
        /\ result.reason.status = response.status
        /\ result.reason.statusText = response.statusText
        /\ result.reason.data =
              (IF response.body.t = "text" THEN EmptyObject ELSE response.body)

\* C2: the message of the error for a response that is not 2xx is the
\* message field of the JSON error body when the body has one, and
\* "Request failed: {status}" when the body is not JSON or has no message.
C2_ErrorMessage ==
    HttpFailureSettled =>
        /\ result.state = "rejected"
        /\ result.reason.message =
              (IF response.body.t = "object"
                  /\ "message" \in DOMAIN response.body.fields
               THEN response.body.fields["message"].v
               ELSE "Request failed: " \o ToString(response.status))

\* C3 as stated: a 204 resolves to undefined without the body being read,
\* every other successful status resolves to the parsed JSON body.
C3_ResolvesForEverySuccess ==
    HttpSuccessSettled =>
        IF response.status = 204
        THEN result = Fulfilled(Undefined) /\ ~bodyRead
        ELSE result = Fulfilled(response.body)

\* C3 as amended: a 204 resolves to undefined without the body being read;
\* every other successful status reads the body and resolves to the parsed
\* JSON body when the body is JSON, and rejects with the parser's error when
\* it is not.
C3_SuccessResult ==
    HttpSuccessSettled =>
        IF response.status = 204
        THEN result = Fulfilled(Undefined) /\ ~bodyRead
        ELSE /\ bodyRead
             /\ response.body.t # "text" => result = Fulfilled(response.body)
             /\ response.body.t = "text" =>
                   /\ result.state = "rejected"
                   /\ result.reason.name = "SyntaxError"

\* a DELETE answered 204 has resolved to undefined, its body never read
C3_Witness ==
    /\ HttpSuccessSettled
    /\ options.method = "DELETE"
    /\ response.status = 204
    /\ result = Fulfilled(Undefined)
    /\ ~bodyRead

\* C4: every client call issues exactly one fetch, to "/api/v1" followed by
\* the endpoint, with the header Content-Type: application/json; no call
\* issues a second fetch, whether it succeeded or failed.
C4_OneRequestPerCall ==
    /\ fetchCount = callCount
    /\ pc # "idle" =>
          /\ lastFetch.url = "/api/v1" \o endpoint
          /\ lastFetch.method = options.method
          /\ "Content-Type" \in DOMAIN lastFetch.headers
          /\ lastFetch.headers["Content-Type"] = "application/json"

\* two calls were made, the second one failed, and two fetches were issued
C4_Witness ==
    /\ pc = "settled"
    /\ result.state = "rejected"
    /\ callCount = 2
    /\ fetchCount = 2
    /\ lastFetch.url = "/api/v1/persons"

-----------------------------------------------------------------------------
(* Properties of the duration computation, checked under DurationSpec *)

\* the start and end Date values calculateDuration worked on for the marriage
MarriageStart == NewDate(marriage.marriageDate)
MarriageEnd ==
    IF Truthy(marriage.endDate) THEN NewDate(marriage.endDate) ELSE clock

\* the same for the employment
EmploymentStart == NewDate(employment.startDate)
EmploymentEnd ==
    IF Truthy(employment.endDate) THEN NewDate(employment.endDate) ELSE clock

\* whole calendar months from start to end, the month of an anniversary day
\* not yet reached left out
WholeMonths(start, end) ==
    12 * (end.fullYear - start.fullYear) + (end.month - start.month)
      - (IF end.date < start.date THEN 1 ELSE 0)

\* C5: the SS Eligible flag of MarriageItem is true exactly when the
\* totalMonths that calculateDuration returns is at least 120.
C5_EligibleIffTenYears ==
    item.rendered =>
        (item.isEligible <=>
            calculateDuration(marriage.marriageDate, marriage.endDate,
                              clock).totalMonths >= 120)

\* a marriage of exactly 120 months is shown as eligible
C5_Witness ==
    /\ item.rendered
    /\ item.totalMonths = 120
    /\ item.isEligible

\* C6: the progress percent of MarriageItem is the percent of the 120-month
\* threshold clamped to 0..100: totalMonths/120*100 when that lies in the
\* range, 100 above the threshold, never below 0 nor above 100.
C6_PercentClamped ==
    item.rendered =>
        /\ item.progressPercent.num >= 0
        /\ item.progressPercent.num <= 100 * item.progressPercent.den
        /\ (item.totalMonths >= 0 /\ item.totalMonths <= 120) =>
              item.progressPercent.num * 120 =
                item.totalMonths * 100 * item.progressPercent.den
        /\ item.totalMonths > 120 =>
              item.progressPercent.num = 100 * item.progressPercent.den

\* C7: for end on or after start, totalMonths = years*12 + months and
\* totalMonths is not negative.
C7_TotalMonthsNonNegative ==
    (item.rendered /\ ~DateBefore(MarriageEnd, MarriageStart)) =>
        /\ item.totalMonths = item.years * 12 + item.months
        /\ item.totalMonths >= 0

\* an end date in the start's month of a later year, on an earlier day
C7_Witness ==
    /\ item.rendered
    /\ ~DateBefore(MarriageEnd, MarriageStart)
    /\ MarriageEnd.month = MarriageStart.month
    /\ MarriageEnd.date < MarriageStart.date
    /\ item.months = 11
    /\ item.totalMonths = 23

\* C8: for end on or after start, totalMonths is 12*(ey - sy) + (em - sm),
\* minus 1 exactly when the end day-of-month is smaller than the start
\* day-of-month, in the marriage view and in the employment view;
\* 2010-06-15 to 2024-06-15 is 14 years 0 months and 2002-03-20 to
\* 2008-12-10 is 6 years 8 months.
C8_WholeCalendarMonths ==
    /\ (item.rendered /\ ~DateBefore(MarriageEnd, MarriageStart)) =>
          item.totalMonths = WholeMonths(MarriageStart, MarriageEnd)
    /\ (tenure.rendered /\ ~DateBefore(EmploymentEnd, EmploymentStart)) =>
          tenure.years * 12 + tenure.months =
            WholeMonths(EmploymentStart, EmploymentEnd)
    /\ calculateDuration(IsoDate(2010, 6, 15), Undefined,
                         NewDate(IsoDate(2024, 6, 15)))
          = [years |-> 14, months |-> 0, totalMonths |-> 168]
    /\ calculateDuration(IsoDate(2002, 3, 20), IsoDate(2008, 12, 10), NotRead)
          = [years |-> 6, months |-> 8, totalMonths |-> 80]
    /\ EmploymentList_calculateDuration(IsoDate(2002, 3, 20),
                                        IsoDate(2008, 12, 10), NotRead)
          = [years |-> 6, months |-> 8]

\* a marriage of 6 years 8 months whose ninth month is not complete
C8_Witness ==
    /\ item.rendered
    /\ marriage.marriageDate = IsoDate(2012, 3, 20)
    /\ marriage.endDate = IsoDate(2018, 12, 10)
    /\ item.years = 6
    /\ item.months = 8

\* C9: calculateDuration(d, d) is 0 years, 0 months, totalMonths 0.
C9_SameDateIsZero ==
    (item.rendered /\ MarriageEnd = MarriageStart) =>
        /\ item.years = 0
        /\ item.months = 0
        /\ item.totalMonths = 0

\* a marriage whose end date is its marriage date was rendered
C9_Witness ==
    /\ item.rendered
    /\ Truthy(marriage.endDate)
    /\ marriage.endDate = marriage.marriageDate
    /\ item.totalMonths = 0

\* C10: for end strictly before start calculateDuration returns, without
\* clamping, a totalMonths that is strictly negative.
C10_EndBeforeStartIsNegative ==
    (item.rendered /\ DateBefore(MarriageEnd, MarriageStart)) =>
        /\ item.totalMonths < 0
        /\ item.totalMonths = item.years * 12 + item.months

\* an end date five days before the marriage date gave minus one month
C10_Witness ==
    /\ item.rendered
    /\ DateBefore(MarriageEnd, MarriageStart)
    /\ MarriageEnd.fullYear = MarriageStart.fullYear
    /\ MarriageEnd.month = MarriageStart.month
    /\ item.totalMonths = -1

-----------------------------------------------------------------------------
(* Query keys (src/api/client.ts, queryKeys) and the query cache they index *)

\* identifiers, years, account types and names given to the key factories
Ids == {"id-1", "id-2"}
LimitYears == {2024, 2025}
AccountTypes == {"TRADITIONAL_401K", "ROTH_IRA"}
SearchNames == {"Acme", ""}

queryKeys_persons ==
    [all |-> <<"persons">>,
     detail |-> [id \in Ids |-> <<"persons", id>>]]

queryKeys_accounts ==
    [byPerson |-> [personId \in Ids |-> <<"accounts", "byPerson", personId>>]]

queryKeys_marriages ==
    [byPerson |-> [personId \in Ids |-> <<"marriages", "byPerson", personId>>]]

queryKeys_limits ==
    [byYear |-> [year \in LimitYears |-> <<"limits", "byYear", year>>],
     byYearAndType |-> [year \in LimitYears |-> [accountType \in AccountTypes |->
                          <<"limits", "byYear", year, accountType>>]],
     availableYears |-> <<"limits", "years">>]

queryKeys_employers_FlatSearch ==
    [all |-> <<"employers">>,
     detail |-> [id \in Ids |-> <<"employers", id>>],
     search |-> [name \in SearchNames |-> <<"employerSearch", name>>]]

queryKeys_employers ==
    [all |-> <<"employers">>,
     detail |-> [id \in Ids |-> <<"employers", id>>],
     search |-> [name \in SearchNames |-> <<"employers", "search", name>>]]

queryKeys_employment ==
    [detail |-> [id \in Ids |-> <<"employment", id>>],
     byPerson |-> [personId \in Ids |-> <<"employment", "byPerson", personId>>],
     currentByPerson |-> [personId \in Ids |->
                            <<"employment", "current", "byPerson", personId>>]]

queryKeys_employmentIncome ==
    [detail |-> [id \in Ids |-> <<"income", id>>],
     byEmployment |-> [employmentId \in Ids |->
                         <<"income", "byEmployment", employmentId>>],
     byPerson |-> [personId \in Ids |-> <<"income", "byPerson", personId>>],
     byPersonAndYear |-> [personId \in Ids |-> [year \in LimitYears |->
                            <<"income", "byPerson", personId, "year", year>>]]]

queryKeys ==
    [persons |-> queryKeys_persons,
     accounts |-> queryKeys_accounts,
     marriages |-> queryKeys_marriages,
     limits |-> queryKeys_limits,
     employers |-> queryKeys_employers,
     employment |-> queryKeys_employment,
     employmentIncome |-> queryKeys_employmentIncome]

Range(f) == {f[x] : x \in DOMAIN f}

\* every key the factories produce for the arguments above
QueryKeys ==
    {queryKeys.persons.all, queryKeys.limits.availableYears, queryKeys.employers.all}
    \cup Range(queryKeys.persons.detail)
    \cup Range(queryKeys.accounts.byPerson)
    \cup Range(queryKeys.marriages.byPerson)
    \cup Range(queryKeys.limits.byYear)
    \cup UNION {Range(queryKeys.limits.byYearAndType[y]) : y \in LimitYears}
    \cup Range(queryKeys.employers.detail)
    \cup Range(queryKeys.employers.search)
    \cup Range(queryKeys.employment.detail)
    \cup Range(queryKeys.employment.byPerson)
    \cup Range(queryKeys.employment.currentByPerson)
    \cup Range(queryKeys.employmentIncome.detail)
    \cup Range(queryKeys.employmentIncome.byEmployment)
    \cup Range(queryKeys.employmentIncome.byPerson)
    \cup UNION {Range(queryKeys.employmentIncome.byPersonAndYear[p]) : p \in Ids}

\* number of queries the cache holds at most
MaxQueries == 2

\* partial matching of query keys, as invalidateQueries({ queryKey }) does it:
\* the filter key matches every key that starts with its elements
PartialMatchKey(queryKey, key) ==
    /\ Len(queryKey) <= Len(key)
    /\ \A i \in 1..Len(queryKey) : key[i] = queryKey[i]

\* useQuery({ queryKey }) : a query is fetched and cached under its key
UseQuery ==
    \E key \in QueryKeys :
        /\ key \notin DOMAIN cache
        /\ Cardinality(DOMAIN cache) < MaxQueries
        /\ cache' = cache @@ (key :> "fresh")
        /\ lastInvalidate' = <<>>
        /\ UNCHANGED <<clientVars, viewVars, formVars, listVars, pageVars>>

\* a stale query is fetched again
RefetchQuery ==
    \E key \in DOMAIN cache :
        /\ cache[key] = "stale"
        /\ cache' = [cache EXCEPT ![key] = "fresh"]
        /\ lastInvalidate' = <<>>
        /\ UNCHANGED <<clientVars, viewVars, formVars, listVars, pageVars>>

\* the keys handed to invalidateQueries: the broad key of each family and
\* the keys the forms and list views invalidate after a mutation
InvalidationKeys ==
    {queryKeys.persons.all, queryKeys.employers.all}
    \cup Range(queryKeys.limits.byYear)
    \cup Range(queryKeys.employers.detail)
    \cup Range(queryKeys.marriages.byPerson)
    \cup Range(queryKeys.employment.byPerson)
    \cup Range(queryKeys.employmentIncome.byEmployment)
    \cup Range(queryKeys.employmentIncome.byPerson)

\* queryClient.invalidateQueries({ queryKey })
InvalidateQueries ==
    \E queryKey \in InvalidationKeys :
        /\ cache' = [key \in DOMAIN cache |->
                        IF PartialMatchKey(queryKey, key) THEN "stale" ELSE cache[key]]
        /\ lastInvalidate' = queryKey
        /\ UNCHANGED <<clientVars, viewVars, formVars, listVars, pageVars>>

KeysNext ==
    \/ UseQuery
    \/ RefetchQuery
    \/ InvalidateQueries

KeysSpec == ClientInit /\ [][KeysNext]_vars

-----------------------------------------------------------------------------
(* Properties of the query keys, checked under KeysSpec *)

\* the narrower keys the factories of a family produce under a broad key
Family(broad) ==
    IF broad = queryKeys.persons.all THEN Range(queryKeys.persons.detail)
    ELSE IF broad = queryKeys.employers.all
        THEN Range(queryKeys.employers.detail) \cup Range(queryKeys.employers.search)
    ELSE IF broad \in Range(queryKeys.limits.byYear)
        THEN {queryKeys.limits.byYearAndType[broad[3]][t] : t \in AccountTypes}
    ELSE IF broad \in Range(queryKeys.employmentIncome.byPerson)
        THEN {queryKeys.employmentIncome.byPersonAndYear[broad[3]][y] : y \in LimitYears}
    ELSE {}

IsPrefix(s, t) == Len(s) <= Len(t) /\ SubSeq(t, 1, Len(s)) = s

\* C12: the broad key of a family is a prefix of every narrower key of the
\* family, for all arguments, and right after the broad key was invalidated
\* every cached query of the family is stale.
C12_BroadKeyIsPrefix ==
    /\ \A id \in Ids :
          IsPrefix(queryKeys.persons.all, queryKeys.persons.detail[id])
    /\ \A id \in Ids :
          IsPrefix(queryKeys.employers.all, queryKeys.employers.detail[id])
    /\ \A name \in SearchNames :
          IsPrefix(queryKeys.employers.all, queryKeys.employers.search[name])
    /\ \A y \in LimitYears : \A t \in AccountTypes :
          IsPrefix(queryKeys.limits.byYear[y], queryKeys.limits.byYearAndType[y][t])
    /\ \A p \in Ids : \A y \in LimitYears :
          IsPrefix(queryKeys.employmentIncome.byPerson[p],
                   queryKeys.employmentIncome.byPersonAndYear[p][y])
    /\ \A key \in DOMAIN cache :
          key \in Family(lastInvalidate) => cache[key] = "stale"

\* the employers family was invalidated while a search query was cached
C12_Witness ==
    /\ lastInvalidate = queryKeys.employers.all
    /\ queryKeys.employers.search["Acme"] \in DOMAIN cache
    /\ cache[queryKeys.employers.search["Acme"]] = "stale"
    /\ \E key \in DOMAIN cache : cache[key] = "fresh"

-----------------------------------------------------------------------------
(* Strings of the form fields.  A field value is a TLA+ string; its         *)
(* characters are read with SubSeq.                                        *)

Digits == {"0", "1", "2", "3", "4", "5", "6", "7", "8", "9"}
UpperCase == {"A", "B", "C", "D", "E", "F", "G", "H", "I", "J", "K", "L", "M",
              "N", "O", "P", "Q", "R", "S", "T", "U", "V", "W", "X", "Y", "Z"}
CharAt(s, i) == SubSeq(s, i, i)

\* String.prototype.trim
RECURSIVE Trim(_)
Trim(s) ==
    IF s = "" THEN ""
    ELSE IF CharAt(s, 1) = " " THEN Trim(Tail(s))
    ELSE IF CharAt(s, Len(s)) = " " THEN Trim(SubSeq(s, 1, Len(s) - 1))
    ELSE s

\* value.replace(/[^...]/g, ''): the characters of the class that s holds.
\* /\D/g keeps the digits, /[^\d.]/g the digits and the dot.
RECURSIVE KeepChars(_, _)
KeepChars(s, class) ==
    IF s = "" THEN ""
    ELSE (IF CharAt(s, 1) \in class THEN CharAt(s, 1) ELSE "")
         \o KeepChars(Tail(s), class)

\* String.prototype.slice(from, to): zero-based, end exclusive
Slice(s, from, to) ==
    LET hi == IF to < Len(s) THEN to ELSE Len(s)
    IN IF from >= hi THEN "" ELSE SubSeq(s, from + 1, hi)

-----------------------------------------------------------------------------
(* EmployerForm (src/features/employment/EmployerForm.tsx) *)

formatEin(value) ==
    LET digits == Slice(KeepChars(value, Digits), 0, 9)
    IN IF Len(digits) > 2
       THEN Slice(digits, 0, 2) \o "-" \o Slice(digits, 2, Len(digits))
       ELSE digits

EinPattern_DigitsOnly(ein) == Len(KeepChars(ein, Digits)) = 9

\* /^\d{2}-\d{7}$/.test(ein)
EinPattern(ein) ==
    /\ Len(ein) = 10
    /\ \A i \in (1..10) \ {3} : CharAt(ein, i) \in Digits
    /\ CharAt(ein, 3) = "-"

\* /^[A-Z]{2}$/.test(state)
StatePattern(state) ==
    /\ Len(state) = 2
    /\ \A i \in 1..2 : CharAt(state, i) \in UpperCase

\* /^\d{5}(-\d{4})?$/.test(zipCode)
ZipPattern(zipCode) ==
    \/ Len(zipCode) = 5 /\ \A i \in 1..5 : CharAt(zipCode, i) \in Digits
    \/ /\ Len(zipCode) = 10
       /\ \A i \in (1..10) \ {6} : CharAt(zipCode, i) \in Digits
       /\ CharAt(zipCode, 6) = "-"

\* a property that an object gets only when the condition holds:
\* if (cond) object.field = value
Property(cond, field, value) == IF cond THEN field :> value ELSE <<>>

\* validate() of EmployerForm: the newErrors object it stores with setErrors
EmployerForm_validate(f) ==
    Property(Trim(f.name) = "", "name", "Employer name is required")
    @@ Property(f.ein # "" /\ ~EinPattern(f.ein),
                "ein", "EIN must be in XX-XXXXXXX format")
    @@ Property(f.state # "" /\ ~StatePattern(f.state),
                "state", "Invalid state code")
    @@ Property(f.zipCode # "" /\ ~ZipPattern(f.zipCode),
                "zipCode", "ZIP code must be XXXXX or XXXXX-XXXX")

\* the ApiCreateEmployerRequest handleSubmit builds
EmployerForm_data(f) ==
    ("name" :> Trim(f.name))
    @@ Property(f.ein # "", "ein", f.ein)
    @@ Property(f.city # "", "city", Trim(f.city))
    @@ Property(f.state # "", "state", f.state)
    @@ Property(f.zipCode # "", "zipCode", f.zipCode)

-----------------------------------------------------------------------------
(* Numbers and dates read from field values *)

\* the longest prefix of s made of digits
RECURSIVE DigitPrefix(_)
DigitPrefix(s) ==
    IF s = "" \/ CharAt(s, 1) \notin Digits THEN ""
    ELSE CharAt(s, 1) \o DigitPrefix(Tail(s))

\* the number a string of digits denotes
RECURSIVE DigitsValue(_)
DigitsValue(s) ==
    IF s = "" THEN 0
    ELSE 10 * DigitsValue(SubSeq(s, 1, Len(s) - 1))
         + (CHOOSE n \in 0..9 : ToString(n) = CharAt(s, Len(s)))

\* parseFloat(s) for a string without exponent: sign, digits, '.', digits.
\* The result is NaN ([nan |-> TRUE]) or a number given by its sign, its
\* integer part and the digits of its fraction.
parseFloat(s) ==
    LET neg == s # "" /\ CharAt(s, 1) = "-"
        body == IF neg THEN Tail(s) ELSE s
        int == DigitPrefix(body)
        rest == SubSeq(body, Len(int) + 1, Len(body))
        frac == IF rest # "" /\ CharAt(rest, 1) = "." THEN DigitPrefix(Tail(rest)) ELSE ""
    IN IF int = "" /\ frac = "" THEN [nan |-> TRUE]
       ELSE [nan |-> FALSE, neg |-> neg, int |-> DigitsValue(int), frac |-> frac]

\* parseInt(s, 10)
parseInt(s) ==
    LET float == parseFloat(s)
    IN IF float.nan \/ DigitPrefix(IF float.neg THEN Tail(s) ELSE s) = ""
       THEN [nan |-> TRUE]
       ELSE [nan |-> FALSE, neg |-> float.neg, int |-> float.int, frac |-> ""]

\* new Date("YYYY-MM-DD"): midnight UTC of that day; the instant is kept as a
\* day count that grows with the date
DateParse(s) ==
    (DigitsValue(SubSeq(s, 1, 4)) * 12 + DigitsValue(SubSeq(s, 6, 7)) - 1) * 31
    + DigitsValue(SubSeq(s, 9, 10))

\* the UTC date of the instant new Date() returns while a form is open
NowUtcDate == "2024-06-15"
\* new Date(s) > new Date(): midnight UTC of s is later than now
InFuture(s) == DateParse(s) > DateParse(NowUtcDate)

-----------------------------------------------------------------------------
(* AddMarriageForm (features/marriage/AddMarriageForm.tsx) *)

AddMarriageForm_validate_NoOrderCheck(f) ==
    Property(Trim(f.spouseFirstName) = "", "spouseFirstName", "First name is required")
    @@ Property(Trim(f.spouseLastName) = "", "spouseLastName", "Last name is required")
    @@ Property(f.marriageDate # "" /\ InFuture(f.marriageDate),
                "marriageDate", "Marriage date cannot be in the future")
    @@ Property(f.marriageDate = "", "marriageDate", "Marriage date is required")
    @@ Property(f.status # "MARRIED" /\ f.endDate = "",
                "endDate", "End date is required for this status")

\* validate(): the newErrors object; a later assignment to the same key
\* replaces the earlier one
AddMarriageForm_validate(f) ==
    Property(Trim(f.spouseFirstName) = "", "spouseFirstName", "First name is required")
    @@ Property(Trim(f.spouseLastName) = "", "spouseLastName", "Last name is required")
    @@ Property(f.marriageDate # "" /\ InFuture(f.marriageDate),
                "marriageDate", "Marriage date cannot be in the future")
    @@ Property(f.marriageDate = "", "marriageDate", "Marriage date is required")
    @@ Property(f.marriageDate # "" /\ f.endDate # ""
                  /\ DateParse(f.endDate) < DateParse(f.marriageDate),
                "endDate", "End date must be after marriage date")
    @@ Property(f.status # "MARRIED" /\ f.endDate = "",
                "endDate", "End date is required for this status")

\* the ApiCreateMarriageRequest handleSubmit builds
AddMarriageForm_data(f) ==
    [spouseFirstName |-> Trim(f.spouseFirstName),
     spouseLastName |-> Trim(f.spouseLastName),
     marriageDate |-> f.marriageDate,
     status |-> f.status]
    @@ Property(f.endDate # "", "endDate", f.endDate)

-----------------------------------------------------------------------------
(* AddEmploymentForm (features/employment/AddEmploymentForm.tsx) *)

AddEmploymentForm_validate(f) ==
    Property(f.employerId = "", "employerId", "Please select an employer")
    @@ Property(f.startDate # "" /\ InFuture(f.startDate),
                "startDate", "Start date cannot be in the future")
    @@ Property(f.startDate = "", "startDate", "Start date is required")
    @@ Property(f.startDate # "" /\ f.endDate # ""
                  /\ DateParse(f.endDate) < DateParse(f.startDate),
                "endDate", "End date must be after start date")
    @@ Property(~f.isCurrent /\ f.endDate = "",
                "endDate", "End date is required for past employment")

\* the ApiCreateEmploymentRequest handleSubmit builds for the person
AddEmploymentForm_data(f, personId) ==
    [personId |-> personId,
     employerId |-> f.employerId,
     startDate |-> f.startDate,
     employmentType |-> f.employmentType,
     retirementPlanEligible |-> f.retirementPlanEligible]
    @@ Property(Trim(f.jobTitle) # "", "jobTitle", Trim(f.jobTitle))
    @@ Property(~f.isCurrent /\ f.endDate # "", "endDate", f.endDate)

-----------------------------------------------------------------------------
(* IncomeForm (src/features/employment/IncomeForm.tsx) *)

\* isNaN(n) || n < 0 for n = parseFloat(s)
InvalidAmount(s) ==
    LET n == parseFloat(s)
    IN n.nan \/ (n.neg /\ (n.int > 0 \/ DigitsValue(n.frac) > 0))

IncomeForm_validate(f) ==
    Property(LET yearNum == parseInt(f.year)
             IN yearNum.nan \/ yearNum.neg \/ yearNum.int < 1900
                \/ yearNum.int > 2100,
             "year", "Please enter a valid year (1900-2100)")
    @@ Property(InvalidAmount(f.annualSalary),
                "annualSalary", "Please enter a valid salary amount")
    @@ Property(f.bonus # "" /\ InvalidAmount(f.bonus),
                "bonus", "Please enter a valid bonus amount")
    @@ Property(f.otherCompensation # "" /\ InvalidAmount(f.otherCompensation),
                "otherCompensation", "Please enter a valid amount")
    @@ Property(f.w2Wages # "" /\ InvalidAmount(f.w2Wages),
                "w2Wages", "Please enter a valid W-2 wages amount")

\* the request data handleSubmit hands to updateMutation or createMutation
IncomeForm_data(f, editing, employmentId) ==
    LET \* parseFloat(s) || 0
        FloatOrZero(s) ==
            LET n == parseFloat(s)
            IN IF n.nan \/ (n.int = 0 /\ DigitsValue(n.frac) = 0)
               THEN [nan |-> FALSE, neg |-> FALSE, int |-> 0, frac |-> ""] ELSE n
    IN IF editing
       THEN [annualSalary |-> parseFloat(f.annualSalary),
             bonus |-> FloatOrZero(f.bonus),
             otherCompensation |-> FloatOrZero(f.otherCompensation)]
            @@ Property(f.w2Wages # "", "w2Wages", parseFloat(f.w2Wages))
       ELSE [employmentId |-> employmentId,
             year |-> parseInt(f.year),
             annualSalary |-> parseFloat(f.annualSalary)]
            @@ Property(f.bonus # "", "bonus", parseFloat(f.bonus))
            @@ Property(f.otherCompensation # "", "otherCompensation",
                        parseFloat(f.otherCompensation))
            @@ Property(f.w2Wages # "", "w2Wages", parseFloat(f.w2Wages))

-----------------------------------------------------------------------------
(* The form dialogs: field state, submit, and the mutation of each form *)

\* the props of the forms: personId, employmentId, employer.id
Props == [personId |-> "id-1", employmentId |-> "id-2", employerId |-> "id-2"]

\* what the user types or picks, per form and field (e.target.value).  Of
\* the three free-text address fields of EmployerForm, city stands for all.
TypedValues ==
    LET dates == {"", "2024-05-20", "2024-06-15", "2024-06-16"}
    IN [EmployerForm |->
           [name |-> {"", " ", " Acme "},
            ein |-> {"", "12345", "12-3456789a"},
            city |-> {"", "Reno"},
            state |-> {"", "NV"},
            zipCode |-> {"", "89501", "8950"}],
        AddMarriageForm |->
           [spouseFirstName |-> {"", " ", "Al"},
            spouseLastName |-> {"", "Li"},
            marriageDate |-> dates,
            endDate |-> dates],
        AddEmploymentForm |->
           [employerId |-> {"", Props.employerId},
            jobTitle |-> {"", " ", "Dev"},
            employmentType |-> {"FULL_TIME", "CONTRACT"},
            startDate |-> dates,
            endDate |-> dates,
            retirementPlanEligible |-> BOOLEAN],
        IncomeForm |->
           [year |-> {"", "2024", "1899", "2101"},
            annualSalary |-> {"", "50000", "-5"},
            bonus |-> {"", "1000", "."},
            otherCompensation |-> {"", "0"},
            w2Wages |-> {"", "48000"}]]

\* the entity a form is given to edit (Undefined: the form creates one)
Entities(kind) ==
    IF kind = "EmployerForm"
    THEN {Undefined,
          [name |-> "Acme", ein |-> "12-3456789", city |-> "Reno", state |-> "NV",
           zipCode |-> "89501-1234"],
          [name |-> "Acme", ein |-> "123456789", state |-> "nv"]}
    ELSE IF kind = "IncomeForm"
    THEN {Undefined,
          [year |-> 2023, annualSalary |-> 50000, bonus |-> 1000,
           otherCompensation |-> 0],
          [year |-> 2023, annualSalary |-> 50000, w2Wages |-> 48000]}
    ELSE {Undefined}

\* the initial useState values of each form
InitialFields(kind, entity) ==
    LET \* entity?.field ?? fallback
        StringOr(field, fallback) ==
            IF entity # Undefined /\ field \in DOMAIN entity
            THEN entity[field] ELSE fallback
        \* entity?.field?.toString() ?? fallback
        ToStringOr(field, fallback) ==
            IF entity # Undefined /\ field \in DOMAIN entity
            THEN ToString(entity[field]) ELSE fallback
    IN CASE kind = "EmployerForm" ->
              [name |-> StringOr("name", ""), ein |-> StringOr("ein", ""),
               city |-> StringOr("city", ""), state |-> StringOr("state", ""),
               zipCode |-> StringOr("zipCode", "")]
         [] kind = "AddMarriageForm" ->
              [spouseFirstName |-> "", spouseLastName |-> "", marriageDate |-> "",
               endDate |-> "", status |-> "MARRIED"]
         [] kind = "AddEmploymentForm" ->
              [employerId |-> "", jobTitle |-> "", startDate |-> "", endDate |-> "",
               employmentType |-> "FULL_TIME", retirementPlanEligible |-> TRUE,
               isCurrent |-> TRUE]
         [] kind = "IncomeForm" ->
              [year |-> ToStringOr("year", "2024"),
               annualSalary |-> ToStringOr("annualSalary", ""),
               bonus |-> ToStringOr("bonus", "0"),
               otherCompensation |-> ToStringOr("otherCompensation", "0"),
               w2Wages |-> ToStringOr("w2Wages", "")]

\* the value an onChange handler stores for what was typed: formatEin for
\* the EIN, formatCurrency for the amounts of IncomeForm, the value itself
\* for every other field
OnChange(kind, field, value) ==
    IF kind = "EmployerForm" /\ field = "ein" THEN formatEin(value)
    ELSE IF kind = "IncomeForm" /\ field # "year"
    THEN KeepChars(value, Digits \cup {"."})
    ELSE value

\* validate() of the open form
Validate(kind, f) ==
    CASE kind = "EmployerForm" -> EmployerForm_validate(f)
      [] kind = "AddMarriageForm" -> AddMarriageForm_validate(f)
      [] kind = "AddEmploymentForm" -> AddEmploymentForm_validate(f)
      [] kind = "IncomeForm" -> IncomeForm_validate(f)

\* the request data handleSubmit of the open form builds
RequestData(kind, f, editing) ==
    CASE kind = "EmployerForm" -> EmployerForm_data(f)
      [] kind = "AddMarriageForm" -> AddMarriageForm_data(f)
      [] kind = "AddEmploymentForm" -> AddEmploymentForm_data(f, Props.personId)
      [] kind = "IncomeForm" -> IncomeForm_data(f, editing, Props.employmentId)

\* requests of unmounted forms that may be in flight at once
MaxOrphans == 1

\* the submit button each form renders from its mutation
SubmitButton_NeverDisabled ==
    [disabled |-> FALSE, label |-> "Save"]

SubmitButton ==
    [disabled |-> mutation = "pending",
     label |-> IF mutation = "pending" THEN "Saving..."
               ELSE CASE formKind = "EmployerForm" ->
                           IF isEditing THEN "Update Employer" ELSE "Add Employer"
                      [] formKind = "AddMarriageForm" -> "Save Marriage"
                      [] formKind = "AddEmploymentForm" -> "Save Employment"
                      [] formKind = "IncomeForm" ->
                           IF isEditing THEN "Update Income" ELSE "Save Income"]

\* the text of the role="alert" element each form renders when
\* mutation.error is set ("": not rendered)
Alert ==
    IF mutation # "error" THEN ""
    ELSE "Failed to " \o (IF isEditing THEN "update" ELSE "add") \o " "
         \o (CASE formKind = "EmployerForm" -> "employer"
               [] formKind = "AddMarriageForm" -> "marriage"
               [] formKind = "AddEmploymentForm" -> "employment"
               [] formKind = "IncomeForm" -> "income")
         \o ". Please try again."

\* the end-date field is rendered only for an ended marriage / employment,
\* the year field of IncomeForm is disabled while editing
ShowsField(kind, f, field) ==
    CASE field = "endDate" /\ kind = "AddMarriageForm" -> f.status # "MARRIED"
      [] field = "endDate" /\ kind = "AddEmploymentForm" -> ~f.isCurrent
      [] field = "year" /\ kind = "IncomeForm" -> ~isEditing
      [] OTHER -> TRUE

\* the parent view renders the form dialog (Add / Edit button)
OpenDialog ==
    /\ ~isModalOpen
    /\ \E entity \in Entities(formKind) :
          /\ isEditing' = (entity # Undefined)
          /\ fields' = InitialFields(formKind, entity)
    /\ isModalOpen' = TRUE
    /\ errors' = <<>>
    /\ mutation' = "idle"
    /\ calls' = <<>>
    /\ UNCHANGED <<formKind, orphans, cacheVars, clientVars, viewVars, listVars, pageVars>>

\* the onChange handler of a rendered input or select that is not disabled
SetField ==
    /\ isModalOpen
    /\ \E field \in DOMAIN TypedValues[formKind] :
        \E value \in TypedValues[formKind][field] :
          /\ ShowsField(formKind, fields, field)
          /\ fields' = [fields EXCEPT ![field] = OnChange(formKind, field, value)]
    /\ calls' = <<>>
    /\ UNCHANGED <<formKind, isEditing, isModalOpen, errors, mutation, orphans>>
    /\ UNCHANGED <<cacheVars, clientVars, viewVars, listVars, pageVars>>

handleStatusChange_KeepsEndDate ==
    /\ isModalOpen /\ formKind = "AddMarriageForm"
    /\ \E newStatus \in {"MARRIED", "DIVORCED", "WIDOWED", "ANNULLED"} :
          fields' = [fields EXCEPT !.status = newStatus]
    /\ calls' = <<>>
    /\ UNCHANGED <<formKind, isEditing, isModalOpen, errors, mutation, orphans>>
    /\ UNCHANGED <<cacheVars, clientVars, viewVars, listVars, pageVars>>

handleStatusChange ==
    /\ isModalOpen /\ formKind = "AddMarriageForm"
    /\ \E newStatus \in {"MARRIED", "DIVORCED", "WIDOWED", "ANNULLED"} :
          fields' = [fields EXCEPT !.status = newStatus,
                                   !.endDate = IF newStatus = "MARRIED" THEN "" ELSE @]
    /\ calls' = <<>>
    /\ UNCHANGED <<formKind, isEditing, isModalOpen, errors, mutation, orphans>>
    /\ UNCHANGED <<cacheVars, clientVars, viewVars, listVars, pageVars>>

handleIsCurrentChange_KeepsEndDate ==
    /\ isModalOpen /\ formKind = "AddEmploymentForm"
    /\ \E checked \in BOOLEAN :
          fields' = [fields EXCEPT !.isCurrent = checked]
    /\ calls' = <<>>
    /\ UNCHANGED <<formKind, isEditing, isModalOpen, errors, mutation, orphans>>
    /\ UNCHANGED <<cacheVars, clientVars, viewVars, listVars, pageVars>>

handleIsCurrentChange ==
    /\ isModalOpen /\ formKind = "AddEmploymentForm"
    /\ \E checked \in BOOLEAN :
          fields' = [fields EXCEPT !.isCurrent = checked,
                                   !.endDate = IF checked THEN "" ELSE @]
    /\ calls' = <<>>
    /\ UNCHANGED <<formKind, isEditing, isModalOpen, errors, mutation, orphans>>
    /\ UNCHANGED <<cacheVars, clientVars, viewVars, listVars, pageVars>>

handleSubmit_NoValidate ==
    /\ isModalOpen /\ ~SubmitButton.disabled
    /\ errors' = Validate(formKind, fields)
    /\ mutation' = "pending"
    /\ calls' = <<[fn |-> "mutate", data |-> RequestData(formKind, fields, isEditing)]>>
    /\ UNCHANGED <<formKind, isEditing, isModalOpen, fields, orphans>>
    /\ UNCHANGED <<cacheVars, clientVars, viewVars, listVars, pageVars>>

\* the form is submitted: by the submit button, or by Enter in a field,
\* which the browser turns into a submit only while that button is enabled
handleSubmit ==
    /\ isModalOpen /\ ~SubmitButton.disabled
    /\ errors' = Validate(formKind, fields)
    /\ IF errors' # <<>>
       THEN mutation' = mutation /\ calls' = <<>>
       ELSE /\ mutation' = "pending"
            /\ calls' = <<[fn |-> "mutate",
                           data |-> RequestData(formKind, fields, isEditing)]>>
    /\ UNCHANGED <<formKind, isEditing, isModalOpen, fields, orphans>>
    /\ UNCHANGED <<cacheVars, clientVars, viewVars, listVars, pageVars>>

\* the keys the onSuccess option of the form's mutation invalidates
FormInvalidations(kind, editing) ==
    CASE kind = "EmployerForm" ->
           IF editing
           THEN <<queryKeys.employers.all, queryKeys.employers.detail[Props.employerId]>>
           ELSE <<queryKeys.employers.all>>
      [] kind = "AddMarriageForm" -> <<>>
      [] kind = "AddEmploymentForm" -> <<queryKeys.employment.byPerson[Props.personId]>>
      [] kind = "IncomeForm" ->
           <<queryKeys.employmentIncome.byEmployment[Props.employmentId],
             queryKeys.employmentIncome.byPerson[Props.personId]>>

\* the keys the parent's onSuccess handler invalidates: handleSuccess of
\* MarriageHistory and of EmploymentList, handleEmployerCreated of
\* AddEmploymentForm
ParentInvalidations(kind, editing) ==
    CASE kind = "AddMarriageForm" -> <<queryKeys.marriages.byPerson[Props.personId]>>
      [] kind = "AddEmploymentForm" -> <<queryKeys.employment.byPerson[Props.personId]>>
      [] kind = "EmployerForm" /\ ~editing -> <<queryKeys.employers.all>>
      [] OTHER -> <<>>

\* whether the parent's onSuccess handler unmounts the dialog.  The three
\* handlers above do; the parents of IncomeForm and of an editing
\* EmployerForm are outside the source, so either may happen.
ParentCloses(kind, editing) ==
    IF kind = "IncomeForm" \/ (kind = "EmployerForm" /\ editing)
    THEN BOOLEAN ELSE {TRUE}

\* the state of an unmounted form dialog
Unmount ==
    /\ isModalOpen' = FALSE
    /\ isEditing' = FALSE
    /\ fields' = NoFields
    /\ errors' = <<>>
    /\ mutation' = "idle"

\* the onSuccess option of a mutation runs: the form's invalidations, then
\* the onSuccess prop and in it the invalidations of the parent's handler
RunOnSuccess(kind, editing) ==
    LET own == FormInvalidations(kind, editing)
        parent == ParentInvalidations(kind, editing)
        keys == own \o parent
    IN /\ calls' = [i \in 1..Len(own) |->
                       [fn |-> "invalidateQueries", queryKey |-> own[i]]]
                   \o <<[fn |-> "onSuccess"]>>
                   \o [i \in 1..Len(parent) |->
                         [fn |-> "invalidateQueries", queryKey |-> parent[i]]]
       /\ cache' = [key \in DOMAIN cache |->
                      IF \E i \in 1..Len(keys) : PartialMatchKey(keys[i], key)
                      THEN "stale" ELSE cache[key]]
       /\ lastInvalidate' = IF keys = <<>> THEN lastInvalidate ELSE keys[Len(keys)]

\* the request of the open form resolves
MutationSucceeds ==
    /\ isModalOpen /\ mutation = "pending"
    /\ RunOnSuccess(formKind, isEditing)
    /\ \E closes \in ParentCloses(formKind, isEditing) :
          IF closes THEN Unmount
          ELSE mutation' = "success" /\ UNCHANGED <<isModalOpen, isEditing, fields, errors>>
    /\ UNCHANGED <<formKind, orphans, clientVars, viewVars, listVars, pageVars>>

MutationFails_CallsOnSuccess ==
    /\ isModalOpen /\ mutation = "pending"
    /\ mutation' = "error"
    /\ calls' = <<[fn |-> "onSuccess"]>>
    /\ UNCHANGED <<formKind, isEditing, isModalOpen, fields, errors, orphans>>
    /\ UNCHANGED <<cacheVars, clientVars, viewVars, listVars, pageVars>>

MutationFails_Silent ==
    /\ isModalOpen /\ mutation = "pending"
    /\ mutation' = "idle"
    /\ calls' = <<>>
    /\ UNCHANGED <<formKind, isEditing, isModalOpen, fields, errors, orphans>>
    /\ UNCHANGED <<cacheVars, clientVars, viewVars, listVars, pageVars>>

\* the request of the open form rejects
MutationFails ==
    /\ isModalOpen /\ mutation = "pending"
    /\ mutation' = "error"
    /\ calls' = <<>>
    /\ UNCHANGED <<formKind, isEditing, isModalOpen, fields, errors, orphans>>
    /\ UNCHANGED <<cacheVars, clientVars, viewVars, listVars, pageVars>>

\* onClose: Cancel, the close button, the backdrop or Escape; the parent
\* unmounts the dialog, a pending request stays in flight
CloseDialog ==
    /\ isModalOpen
    /\ mutation = "pending" => Len(orphans) < MaxOrphans
    /\ calls' = <<[fn |-> "onClose"]>>
    /\ orphans' = IF mutation = "pending" THEN Append(orphans, isEditing) ELSE orphans
    /\ Unmount
    /\ UNCHANGED <<formKind, cacheVars, clientVars, viewVars, listVars, pageVars>>

\* the request of an unmounted form resolves: the onSuccess option of its
\* mutation still runs, and with it the handler of the mounted parent
OrphanSucceeds ==
    /\ orphans # <<>>
    /\ RunOnSuccess(formKind, Head(orphans))
    /\ \E closes \in ParentCloses(formKind, Head(orphans)) :
          IF closes /\ isModalOpen
          THEN /\ Unmount
               /\ orphans' = IF mutation = "pending"
                              THEN Append(Tail(orphans), isEditing)
                              ELSE Tail(orphans)
          ELSE /\ orphans' = Tail(orphans)
               /\ UNCHANGED <<isModalOpen, isEditing, fields, errors, mutation>>
    /\ UNCHANGED <<formKind, clientVars, viewVars, listVars, pageVars>>

\* the request of an unmounted form rejects: nothing observes it
OrphanFails ==
    /\ orphans # <<>>
    /\ orphans' = Tail(orphans)
    /\ calls' = <<>>
    /\ UNCHANGED <<formKind, isEditing, isModalOpen, fields, errors, mutation>>
    /\ UNCHANGED <<cacheVars, clientVars, viewVars, listVars, pageVars>>

\* a form of one kind under its parent view, the dialog closed, and the
\* queries the views hold all fetched
FormInit ==
    /\ InitClient /\ InitViews
    /\ cache = [key \in {queryKeys.marriages.byPerson[Props.personId],
                          queryKeys.employers.all,
                          queryKeys.employers.detail[Props.employerId],
                          queryKeys.employers.search["Acme"],
                          queryKeys.employment.byPerson[Props.personId],
                          queryKeys.employment.currentByPerson[Props.personId],
                          queryKeys.employmentIncome.detail["id-1"],
                          queryKeys.employmentIncome.byEmployment[Props.employmentId],
                          queryKeys.employmentIncome.byPerson[Props.personId],
                          queryKeys.employmentIncome.byPersonAndYear[Props.personId][2024]}
                  |-> "fresh"]
    /\ lastInvalidate = <<>>
    /\ formKind \in DOMAIN TypedValues
    /\ isEditing = FALSE
    /\ isModalOpen = FALSE
    /\ fields = NoFields
    /\ errors = <<>>
    /\ mutation = "idle"
    /\ orphans = <<>>
    /\ calls = <<>>
    /\ view = "none"
    /\ queries = <<>>
    /\ profilePerson = NoRecord
    /\ profile = NotRendered
    /\ dialog = NoDialog
    /\ showEmployerForm = FALSE
    /\ showEndDate = FALSE
    /\ isPending = {}
    /\ listeners = <<>>
    /\ activeElement = Body

FormNext ==
    \/ OpenDialog
    \/ SetField
    \/ handleStatusChange
    \/ handleIsCurrentChange
    \/ handleSubmit
    \/ MutationSucceeds
    \/ MutationFails
    \/ CloseDialog
    \/ OrphanSucceeds
    \/ OrphanFails

FormSpec == FormInit /\ [][FormNext]_vars

-----------------------------------------------------------------------------
(* Properties of the forms, checked under FormSpec *)

\* the latest handler called mutate, that is, issued a create or update request
MutateIssued == \E i \in 1..Len(calls) : calls[i].fn = "mutate"

\* C13: in every form, a submit whose validate() finds an error issues no
\* request and leaves the mutation alone, and stores the errors as a map
\* from names of fields of the form to messages; a request is issued only
\* by a submit whose validation found no error.  (handleSubmit leaves the
\* fields alone; that is tested first, so that validate() is evaluated on
\* the steps that can be submits only.)
C13_ValidationBlocksRequest ==
    [][/\ (fields' = fields /\ handleSubmit /\ errors' # <<>>) =>
            /\ ~MutateIssued'
            /\ mutation' = mutation
            /\ DOMAIN errors' \subseteq DOMAIN fields
            /\ \A field \in DOMAIN errors' : Len(errors'[field]) > 0
       /\ MutateIssued' => (handleSubmit /\ errors' = <<>>)]_vars

\* a submit of AddEmploymentForm was blocked with two errors
C13_Witness ==
    /\ formKind = "AddEmploymentForm" /\ isModalOpen
    /\ DOMAIN errors = {"employerId", "endDate"}
    /\ mutation = "idle" /\ calls = <<>>
    /\ fields.startDate # ""

\* the class of each character of s: "d" for a digit, "A" for an upper-case
\* letter, the character itself otherwise
Shape(s) ==
    [i \in 1..Len(s) |->
        IF CharAt(s, i) \in Digits THEN "d"
        ELSE IF CharAt(s, i) \in UpperCase THEN "A"
        ELSE CharAt(s, i)]

\* the employer fields the claim lets pass
AcceptableEmployer(f) ==
    /\ \E i \in 1..Len(f.name) : CharAt(f.name, i) # " "
    /\ f.ein = "" \/ Shape(f.ein) = <<"d", "d", "-", "d", "d", "d", "d", "d", "d", "d">>
    /\ f.state = "" \/ Shape(f.state) = <<"A", "A">>
    /\ \/ f.zipCode = ""
       \/ Shape(f.zipCode) = <<"d", "d", "d", "d", "d">>
       \/ Shape(f.zipCode) = <<"d", "d", "d", "d", "d", "-", "d", "d", "d", "d">>

\* C14: a submit of EmployerForm passes validation exactly when the name is
\* non-blank, the EIN is empty or XX-XXXXXXX, the state is empty or two
\* upper-case letters and the ZIP code is empty or XXXXX or XXXXX-XXXX; an
\* empty name yields 'Employer name is required', and the EIN field after
\* 12345 was typed yields 'EIN must be in XX-XXXXXXX format'.
C14_EmployerValidation ==
    [][(formKind = "EmployerForm" /\ fields' = fields /\ handleSubmit) =>
          /\ (errors' = <<>>) <=> AcceptableEmployer(fields)
          /\ fields.name = "" =>
                /\ "name" \in DOMAIN errors'
                /\ errors'["name"] = "Employer name is required"
          /\ fields.ein = formatEin("12345") =>
                /\ "ein" \in DOMAIN errors'
                /\ errors'["ein"] = "EIN must be in XX-XXXXXXX format"]_vars

\* 12345 was typed into the EIN field of a form with a name, and the submit
\* was blocked with the EIN error only
C14_Witness ==
    /\ formKind = "EmployerForm" /\ isModalOpen
    /\ fields.ein = "12-345"
    /\ fields.name = " Acme "
    /\ errors = [ein |-> "EIN must be in XX-XXXXXXX format"]
    /\ mutation = "idle"

\* the request data of the mutate call the latest handler made
IssuedData == (CHOOSE i \in 1..Len(calls) : calls[i].fn = "mutate")

\* C15: every create request AddMarriageForm issues has non-blank spouse
\* first and last names, a marriage date that is present and not later than
\* now, an end date (if any) on or after the marriage date, and an end date
\* whenever the status is not MARRIED.
C15_MarriageRequestValid ==
    (formKind = "AddMarriageForm" /\ MutateIssued) =>
        LET data == calls[IssuedData].data
        IN /\ \E i \in 1..Len(data.spouseFirstName) :
                 CharAt(data.spouseFirstName, i) # " "
           /\ \E i \in 1..Len(data.spouseLastName) :
                 CharAt(data.spouseLastName, i) # " "
           /\ data.marriageDate # ""
           /\ DateParse(data.marriageDate) <= DateParse(NowUtcDate)
           /\ "endDate" \in DOMAIN data =>
                 DateParse(data.endDate) >= DateParse(data.marriageDate)
           /\ data.status # "MARRIED" => "endDate" \in DOMAIN data

\* a request for an ended marriage was issued after the status was changed
C15_Witness ==
    /\ formKind = "AddMarriageForm" /\ MutateIssued
    /\ calls[IssuedData].data =
          [spouseFirstName |-> "Al", spouseLastName |-> "Li",
           marriageDate |-> "2024-05-20", status |-> "DIVORCED",
           endDate |-> "2024-06-15"]

\* the alert the claim expects after a failed request, per form
ExpectedAlert ==
    CASE formKind = "EmployerForm" /\ isEditing ->
           "Failed to update employer. Please try again."
      [] formKind = "EmployerForm" /\ ~isEditing ->
           "Failed to add employer. Please try again."
      [] formKind = "AddMarriageForm" -> "Failed to add marriage. Please try again."
      [] formKind = "AddEmploymentForm" -> "Failed to add employment. Please try again."
      [] formKind = "IncomeForm" /\ isEditing ->
           "Failed to update income. Please try again."
      [] formKind = "IncomeForm" /\ ~isEditing ->
           "Failed to add income. Please try again."

\* C19: when the request of an open form fails, the form stays open with
\* its field values unchanged and shows the alert 'Failed to add/update ...
\* Please try again.'; onSuccess is not called, no query is invalidated, and
\* the submit button is enabled, so the form can be submitted again (an
\* open form with an enabled submit button is all handleSubmit requires).
C19_FailureKeepsForm ==
    /\ [][MutationFails =>
             /\ isModalOpen' /\ fields' = fields /\ isEditing' = isEditing
             /\ Alert' = ExpectedAlert
             /\ \A i \in 1..Len(calls') :
                   calls'[i].fn \notin {"onSuccess", "invalidateQueries"}
             /\ cache' = cache /\ lastInvalidate' = lastInvalidate
             /\ ~SubmitButton'.disabled]_vars
    /\ [](mutation = "error" => (isModalOpen /\ ~SubmitButton.disabled))

\* the update request of an EmployerForm failed and the alert is shown
C19_Witness ==
    /\ formKind = "EmployerForm" /\ isEditing /\ isModalOpen
    /\ mutation = "error"
    /\ Alert = "Failed to update employer. Please try again."
    /\ fields.zipCode = "89501"
    /\ errors = <<>>

\* C20: while the mutation of a form is pending its submit button is
\* disabled and labelled 'Saving...', and no handler of the form issues a
\* second request before the first has settled; once the request has
\* succeeded or failed the button of the open form is enabled again.
C20_OneRequestInFlight ==
    /\ [](isModalOpen =>
            /\ mutation = "pending" =>
                  SubmitButton.disabled /\ SubmitButton.label = "Saving..."
            /\ mutation \in {"success", "error"} =>
                  ~SubmitButton.disabled /\ SubmitButton.label # "Saving...")
    /\ [][(isModalOpen /\ mutation = "pending") => ~MutateIssued']_vars

\* a request is pending while the user goes on editing the form
C20_Witness ==
    /\ formKind = "IncomeForm" /\ isModalOpen
    /\ mutation = "pending"
    /\ calls = <<>>
    /\ fields.annualSalary = ""

\* C18: the result of a request whose form dialog was closed while the
\* request was in flight is ignored: when it arrives, as a success or as a
\* failure, the dialog that is open then (or closed then) and its form
\* state stay as they are.  Stated for the two dialogs whose parent view
\* is in the source, MarriageHistory and EmploymentList.
C18_LateResultIgnored ==
    [][(/\ formKind \in {"AddMarriageForm", "AddEmploymentForm"}
        /\ OrphanSucceeds \/ OrphanFails)
          => UNCHANGED <<isModalOpen, isEditing, fields, errors, mutation>>]_vars

-----------------------------------------------------------------------------
(* The list views and their queries: features/marriage/MarriageHistory.tsx, *)
(* pages/PersonDetail.tsx, features/employment/EmploymentPage.tsx with      *)
(* EmploymentList.tsx                                                       *)

\* number of rows a list request is answered with, at most
MaxRows == 2

\* the queries a page registers with useQuery, in the order of the code,
\* and the URL the queryFn of each requests for the person id it is given.
\* MarriageHistory and PersonDetail pass personApi.getAll itself as the
\* queryFn, so that params is the query context, which has no page, size or
\* sort; EmploymentPage calls it with { page: 0, size: 1 }.
Requests(v, id) ==
    CASE v = "MarriageHistory" ->
           <<[query |-> "persons", url |-> "/persons"],
             [query |-> "marriages", url |-> "/persons/" \o id \o "/marriages"]>>
      [] v = "PersonDetail" ->
           <<[query |-> "persons", url |-> "/persons"],
             [query |-> "accounts", url |-> "/persons/" \o id \o "/accounts"],
             [query |-> "limits",
              url |-> "/persons/" \o id \o "/contribution-limits"]>>
      [] v = "EmploymentPage" ->
           <<[query |-> "persons", url |-> "/persons?page=0&size=1"],
             [query |-> "employment", url |-> "/employment?personId=" \o id]>>

\* the person a page takes from the data of its persons query:
\* persons?.[0] in MarriageHistory and PersonDetail, personsPage?.content?.[0]
\* in EmploymentPage.  An array has no content, a page object no element 0.
FirstPerson(v, data) ==
    LET list == IF v = "EmploymentPage"
                THEN IF data.t = "page" THEN data.content ELSE <<>>
                ELSE IF data.t = "array" THEN data.items ELSE <<>>
    IN IF list = <<>> THEN Undefined ELSE list[1]

\* the queryFn of a dependent query.  MarriageHistory and PersonDetail
\* evaluate person!.id, which throws a TypeError when there is no person;
\* EmploymentList is given the id as a prop.
queryFn_Unchecked(v, query, person) ==
    LET id == IF person = Undefined THEN "undefined" ELSE person.id
        all == Requests(v, id)
    IN [throws |-> FALSE,
        url |-> all[CHOOSE i \in 1..Len(all) : all[i].query = query].url]

queryFn(v, query, person) ==
    IF person = Undefined
    THEN [throws |-> TRUE]
    ELSE LET all == Requests(v, person.id)
         IN [throws |-> FALSE,
             url |-> all[CHOOSE i \in 1..Len(all) : all[i].query = query].url]

\* the queries named are fetched (on becoming enabled, by refetch or after
\* an invalidation) in the state q of the queries: the state afterwards and
\* the requests sent.  A queryFn that throws leaves its query in the error
\* state; a fetch of a query without data shows that query as pending again.
FetchQueries(q, names) ==
    LET person == FirstPerson(view, q.persons.data)
        IsSent(r) == r.query \in names /\ ~queryFn(view, r.query, person).throws
        sent == SelectSeq(Requests(view, ""), IsSent)
    IN [queries |->
          [n \in DOMAIN q |->
             IF n \notin names THEN q[n]
             ELSE IF queryFn(view, n, person).throws
                  THEN [q[n] EXCEPT !.status = "error", !.fetching = FALSE]
                  ELSE [q[n] EXCEPT !.fetching = TRUE,
                                    !.status = IF q[n].data = Undefined
                                               THEN "pending" ELSE @]],
        calls |->
          [i \in 1..Len(sent) |->
             [fn |-> "fetch", query |-> sent[i].query,
              url |-> queryFn(view, sent[i].query, person).url]]]

\* what the page renders
Screen ==
    LET IsLoading(q) == q.status = "pending" /\ q.fetching
        IsError(q) == q.status = "error"
        HasRows(q) == q.data # Undefined /\ q.data.items # <<>>
        person == FirstPerson(view, queries.persons.data)
    IN CASE view = "none" -> "none"
         [] view = "MarriageHistory" ->
              IF IsLoading(queries.persons) \/ IsLoading(queries.marriages)
              THEN "loading"
              ELSE IF IsError(queries.persons) \/ IsError(queries.marriages)
              THEN "error"
              ELSE IF person = Undefined THEN "noProfile"
              ELSE IF HasRows(queries.marriages) THEN "list" ELSE "empty"
         [] view = "PersonDetail" ->
              IF IsLoading(queries.persons) THEN "loading"
              ELSE IF IsError(queries.persons) THEN "pageError"
              ELSE IF person = Undefined THEN "noProfile"
              ELSE "profile"
         [] view = "EmploymentPage" ->
              IF IsLoading(queries.persons) THEN "loading"
              ELSE IF IsError(queries.persons) THEN "pageError"
              ELSE IF person = Undefined THEN "noProfile"
              ELSE IF IsLoading(queries.employment) THEN "loading"
              ELSE IF IsError(queries.employment) THEN "error"
              ELSE IF HasRows(queries.employment) THEN "list" ELSE "empty"

\* the page is loaded, or loaded again by the Retry button of PersonDetail
\* and of EmploymentPage (window.location.reload()): a new query cache, the
\* persons query is fetched, the dependent queries are disabled
Load ==
    /\ view = "none" \/ Screen = "pageError"
    /\ \E v \in IF view = "none"
                THEN {"MarriageHistory", "PersonDetail", "EmploymentPage"}
                ELSE {view} :
          LET all == Requests(v, "")
          IN /\ view' = v
             /\ queries' = [n \in {all[i].query : i \in 1..Len(all)} |->
                              [status |-> "pending", fetching |-> n = "persons",
                               data |-> Undefined]]
             /\ calls' = <<[fn |-> "fetch", query |-> "persons", url |-> all[1].url]>>
    /\ UNCHANGED <<formKind, isEditing, isModalOpen, fields, errors, mutation,
                   orphans, cacheVars, clientVars, viewVars, pageVars>>

\* the persons request settles: rejected, or resolved with an array or a
\* page of persons.  With a person the dependent queries become enabled
\* (enabled: !!person?.id, and EmploymentList is rendered) and are fetched.
PersonsSettles ==
    /\ view # "none" /\ queries.persons.fetching
    /\ \E body \in {[t |-> "rejects"]}
                   \cup {[t |-> "array", items |-> ps] :
                           ps \in {<<>>} \cup {<<[id |-> id]>> : id \in Ids}}
                   \cup {[t |-> "page", content |-> ps] :
                           ps \in {<<>>} \cup {<<[id |-> id]>> : id \in Ids}} :
          IF body.t = "rejects"
          THEN /\ queries' = [queries EXCEPT !.persons.status = "error",
                                             !.persons.fetching = FALSE]
               /\ calls' = <<>>
          ELSE LET settled == [queries EXCEPT
                                 !.persons = [status |-> "success",
                                              fetching |-> FALSE, data |-> body]]
                   person == FirstPerson(view, body)
                   enabled == IF person # Undefined /\ person.id # ""
                              THEN {n \in DOMAIN queries :
                                      n # "persons" /\ ~queries[n].fetching}
                              ELSE {}
               IN /\ queries' = FetchQueries(settled, enabled).queries
                  /\ calls' = FetchQueries(settled, enabled).calls
    /\ UNCHANGED <<view, formKind, isEditing, isModalOpen, fields, errors,
                   mutation, orphans, cacheVars, clientVars, viewVars, pageVars>>

\* the request of a dependent query settles: rejected (the data it had
\* stays), or resolved with an array of zero or more rows
DependentSettles ==
    /\ view # "none"
    /\ \E n \in DOMAIN queries \ {"persons"} :
          /\ queries[n].fetching
          /\ \E body \in {[t |-> "rejects"]}
                         \cup {[t |-> "array", items |-> [i \in 1..rows |-> "row"]] :
                                 rows \in 0..MaxRows} :
                queries' = [queries EXCEPT
                              ![n] = IF body.t = "rejects"
                                     THEN [@ EXCEPT !.status = "error",
                                                    !.fetching = FALSE]
                                     ELSE [status |-> "success", fetching |-> FALSE,
                                           data |-> body]]
    /\ calls' = <<>>
    /\ UNCHANGED <<view, formKind, isEditing, isModalOpen, fields, errors,
                   mutation, orphans, cacheVars, clientVars, viewVars, pageVars>>

\* the Retry button of the ErrorState of MarriageHistory and of
\* EmploymentList: onRetry={() => refetch()}, the refetch of the marriages
\* query and of the employment query
Retry ==
    /\ Screen = "error"
    /\ LET list == IF view = "MarriageHistory" THEN "marriages" ELSE "employment"
       IN /\ queries' = FetchQueries(queries, {list}).queries
          /\ calls' = FetchQueries(queries, {list}).calls
    /\ UNCHANGED <<view, formKind, isEditing, isModalOpen, fields, errors,
                   mutation, orphans, cacheVars, clientVars, viewVars, pageVars>>

\* handleSuccess of MarriageHistory and of EmploymentList, called once a
\* create succeeded: the dialog is closed and the list query invalidated,
\* which refetches it
handleSuccess ==
    /\ view \in {"MarriageHistory", "EmploymentPage"}
    /\ Screen \in {"list", "empty"}
    /\ LET list == IF view = "MarriageHistory" THEN "marriages" ELSE "employment"
           person == FirstPerson(view, queries.persons.data)
           key == IF view = "MarriageHistory"
                  THEN queryKeys.marriages.byPerson[person.id]
                  ELSE queryKeys.employment.byPerson[person.id]
       IN /\ queries' = FetchQueries(queries, {list}).queries
          /\ calls' = <<[fn |-> "invalidateQueries", queryKey |-> key]>>
                      \o FetchQueries(queries, {list}).calls
    /\ isModalOpen' = FALSE
    /\ UNCHANGED <<view, formKind, isEditing, fields, errors, mutation, orphans,
                   cacheVars, clientVars, viewVars, pageVars>>

ListNext ==
    \/ Load
    \/ PersonsSettles
    \/ DependentSettles
    \/ Retry
    \/ handleSuccess

ListSpec == ClientInit /\ [][ListNext]_vars

-----------------------------------------------------------------------------
(* Claims about the list views *)

\* C16: a request of a query that depends on a person id (marriages,
\* accounts, contribution limits, employment by person) is sent only when
\* the persons query has resolved with a person, and its URL carries the id
\* of that person, never an empty or undefined id; Retry included.
C16_DependentFetchHasPerson ==
    \A i \in 1..Len(calls) :
       (calls[i].fn = "fetch" /\ calls[i].query # "persons") =>
          LET person == FirstPerson(view, queries.persons.data)
              UrlFor(id) ==
                LET all == Requests(view, id)
                IN all[CHOOSE k \in 1..Len(all) : all[k].query = calls[i].query].url
          IN /\ queries.persons.status = "success"
             /\ person # Undefined
             /\ person.id \in Ids
             /\ calls[i].url = UrlFor(person.id)
             /\ calls[i].url \notin {UrlFor(""), UrlFor("undefined"), UrlFor("null")}

\* Retry has sent the request of the list query again, for the person the
\* persons query resolved with
C16_Witness ==
    /\ view \in {"MarriageHistory", "EmploymentPage"}
    /\ \E n \in DOMAIN queries \ {"persons"} :
          /\ queries[n].status = "error" /\ queries[n].fetching
          /\ \E i \in 1..Len(calls) : calls[i].fn = "fetch" /\ calls[i].query = n

\* C17: pressing Retry in the error state of a list view sends again the
\* request of every query of the view that failed, the persons query of
\* MarriageHistory included.
C17_RetryReissuesFailedFetch ==
    [][Retry =>
         \A n \in DOMAIN queries :
            queries[n].status = "error" =>
               \E i \in 1..Len(calls') :
                  calls'[i].fn = "fetch" /\ calls'[i].query = n]_vars

-----------------------------------------------------------------------------
(* Claims about the success of a form and about its dependent fields *)

\* the number of calls of fn the latest handler made
Count(fn) == Cardinality({i \in 1..Len(calls) : calls[i].fn = fn})

\* C21: the onSuccess prop of a form is called, and queries are
\* invalidated, only by the step in which the request of the form resolves
\* successfully, and onSuccess exactly once in that step: not by a submit,
\* blocked or not, and not by a failed request.  For AddMarriageForm under
\* MarriageHistory that step unmounts the dialog and invalidates
\* marriages.byPerson of the person.
C21_OnSuccessAfterSuccessOnly ==
    [][/\ (Count("onSuccess")' + Count("invalidateQueries")' > 0) =>
             /\ MutationSucceeds \/ OrphanSucceeds
             /\ Count("onSuccess")' = 1
       /\ (mutation = "pending" /\ mutation' # "pending" /\ MutationSucceeds) =>
             Count("onSuccess")' = 1
       /\ (formKind = "AddMarriageForm" /\ Count("onSuccess")' > 0) =>
             /\ ~isModalOpen'
             /\ \E i \in 1..Len(calls') :
                   /\ calls'[i].fn = "invalidateQueries"
                   /\ calls'[i].queryKey = queryKeys.marriages.byPerson[Props.personId]
             /\ cache'[queryKeys.marriages.byPerson[Props.personId]] = "stale"]_vars

\* the create request of AddMarriageForm has succeeded
C21_Witness ==
    /\ formKind = "AddMarriageForm"
    /\ Count("onSuccess") = 1
    /\ ~isModalOpen /\ orphans = <<>>
    /\ cache[queryKeys.marriages.byPerson[Props.personId]] = "stale"

\* C22: in AddMarriageForm the end-date field is shown exactly when the
\* status is DIVORCED, WIDOWED or ANNULLED; while the status is MARRIED the
\* stored end date is empty, and a create request with status MARRIED has
\* no endDate.
C22_MarriedHasNoEndDate ==
    (formKind = "AddMarriageForm" /\ isModalOpen) =>
        /\ ShowsField(formKind, fields, "endDate")
              <=> fields.status \in {"DIVORCED", "WIDOWED", "ANNULLED"}
        /\ fields.status = "MARRIED" =>
              /\ ~ShowsField(formKind, fields, "endDate")
              /\ fields.endDate = ""
        /\ (MutateIssued /\ calls[IssuedData].data.status = "MARRIED") =>
              "endDate" \notin DOMAIN calls[IssuedData].data

\* a request with status MARRIED and without endDate was issued
C22_Witness ==
    /\ formKind = "AddMarriageForm" /\ isModalOpen /\ MutateIssued
    /\ calls[IssuedData].data.status = "MARRIED"
    /\ "endDate" \notin DOMAIN calls[IssuedData].data
    /\ fields.marriageDate = "2024-05-20"

\* C23: in AddEmploymentForm, while 'I currently work here' is checked the
\* end-date field is hidden and the stored end date is empty; a create
\* request has an endDate exactly when the employment is not current, and
\* that endDate is not before the start date.
C23_CurrentHasNoEndDate ==
    (formKind = "AddEmploymentForm" /\ isModalOpen) =>
        /\ fields.isCurrent =>
              /\ ~ShowsField(formKind, fields, "endDate")
              /\ fields.endDate = ""
        /\ MutateIssued =>
              LET data == calls[IssuedData].data
              IN /\ "endDate" \in DOMAIN data <=> ~fields.isCurrent
                 /\ "endDate" \in DOMAIN data =>
                       DateParse(data.endDate) >= DateParse(data.startDate)

\* a request for a past employment with an end date was issued
C23_Witness ==
    /\ formKind = "AddEmploymentForm" /\ isModalOpen /\ MutateIssued
    /\ ~fields.isCurrent
    /\ calls[IssuedData].data.endDate = "2024-06-15"
    /\ calls[IssuedData].data.startDate = "2024-05-20"

\* the keys under which the entity a form of the kind creates or updates
\* can be cached, for the person, employment and employer of the form
EntityKeys(kind, editing) ==
    CASE kind = "EmployerForm" ->
           {queryKeys.employers.all, queryKeys.employers.detail[Props.employerId]}
           \cup Range(queryKeys.employers.search)
      [] kind = "AddEmploymentForm" ->
           {queryKeys.employment.byPerson[Props.personId],
            queryKeys.employment.currentByPerson[Props.personId]}
      [] kind = "IncomeForm" ->
           {queryKeys.employmentIncome.byEmployment[Props.employmentId],
            queryKeys.employmentIncome.byPerson[Props.personId]}
           \cup Range(queryKeys.employmentIncome.byPersonAndYear[Props.personId])
           \cup (IF editing THEN Range(queryKeys.employmentIncome.detail) ELSE {})
      [] kind = "AddMarriageForm" -> {queryKeys.marriages.byPerson[Props.personId]}

C27_SameKeySameRequestAndShape ==
    view # "none" =>
       \A other \in {"MarriageHistory", "PersonDetail", "EmploymentPage"} :
          /\ Requests(other, "")[1].url = Requests(view, "")[1].url
          /\ FirstPerson(other, queries.persons.data)
               = FirstPerson(view, queries.persons.data)

-----------------------------------------------------------------------------
(* The profile page: pages/PersonDetail.tsx *)

\* the year of the current date, and the ages the persons reach in it:
\* MinAge .. MinAge + MaxAgeSpan
ProfileYear == 2024
MinAge == 48
MaxAgeSpan == 9

\* calculateAge(dateOfBirth) with today = new Date()
calculateAge(dateOfBirth, today) ==
    LET birthDate == NewDate(dateOfBirth)
        age == today.fullYear - birthDate.fullYear
        monthDiff == today.month - birthDate.month
    IN IF monthDiff < 0 \/ (monthDiff = 0 /\ today.date < birthDate.date)
       THEN age - 1
       ELSE age

isCatchUpEligible(dateOfBirth, today) == calculateAge(dateOfBirth, today) >= 50

\* formatCurrency(amount): (amount / 1000).toFixed(0 or 1) followed by K
\* from 1000 on; the amounts of the model are multiples of 100, for which
\* toFixed(1) is exact
formatCurrency(amount) ==
    IF amount >= 1000
    THEN IF amount % 1000 = 0
         THEN "$" \o ToString(amount \div 1000) \o "K"
         ELSE "$" \o ToString(amount \div 1000) \o "."
                  \o ToString(((amount + 50) \div 100) % 10) \o "K"
    ELSE "$" \o ToString(amount)

\* buildContributionStats(limits, isCatchUp): the values of the three stats
buildContributionStats(limits, isCatchUp) ==
    IF limits = Undefined
    THEN [k401 |-> "--", ira |-> "--", hsa |-> "--"]
    ELSE [k401 |-> formatCurrency(IF isCatchUp
                                  THEN limits.traditional401kLimit
                                         + limits.catchUp401kLimit
                                  ELSE limits.traditional401kLimit),
          ira |-> formatCurrency(IF isCatchUp
                                 THEN limits.traditionalIraLimit
                                        + limits.catchUpIraLimit
                                 ELSE limits.traditionalIraLimit),
          hsa |-> formatCurrency(IF isCatchUp
                                 THEN limits.hsaIndividualLimit
                                        + limits.catchUpHsaLimit
                                 ELSE limits.hsaIndividualLimit)]

\* PersonDetail renders the person: with the limits query still without
\* data, or with the limits of the year
RenderPersonDetail ==
    /\ profilePerson # NoRecord
    /\ ~profile.rendered
    /\ \E today \in {IsoDate(ProfileYear, m, d) : m \in Months, d \in Days} :
       \E limits \in {Undefined,
                      [traditional401kLimit |-> 23500, catchUp401kLimit |-> 7500,
                       traditionalIraLimit |-> 7000, catchUpIraLimit |-> 1000,
                       hsaIndividualLimit |-> 4300, catchUpHsaLimit |-> 1000]} :
          /\ clock' = NewDate(today)
          /\ profile' =
               [rendered |-> TRUE,
                limits |-> limits,
                age |-> calculateAge(profilePerson.dateOfBirth, NewDate(today)),
                catchUpEligible |->
                    isCatchUpEligible(profilePerson.dateOfBirth, NewDate(today)),
                contributionStats |->
                    buildContributionStats(limits,
                        isCatchUpEligible(profilePerson.dateOfBirth, NewDate(today)))]
    /\ UNCHANGED <<marriage, employment, item, tenure, profilePerson>>
    /\ UNCHANGED <<dialog, showEmployerForm, showEndDate, isPending, listeners,
                   activeElement>>
    /\ UNCHANGED <<clientVars, cacheVars, formVars, listVars>>

\* the persons query has delivered a person born in one of the years
\* considered
ProfileInit ==
    /\ InitClient /\ InitViews /\ InitCache /\ InitForms
    /\ view = "none"
    /\ queries = <<>>
    /\ profilePerson \in
         {[dateOfBirth |-> IsoDate(y, m, d)] :
            y \in (ProfileYear - MinAge - MaxAgeSpan) .. (ProfileYear - MinAge),
            m \in Months, d \in Days}
    /\ profile = NotRendered
    /\ dialog = NoDialog
    /\ showEmployerForm = FALSE
    /\ showEndDate = FALSE
    /\ isPending = {}
    /\ listeners = <<>>
    /\ activeElement = Body

ProfileSpec == ProfileInit /\ [][RenderPersonDetail]_vars

-----------------------------------------------------------------------------
(* Claims about the profile page *)

\* the age the person has on December 31 of the current year
AgeAtYearEnd == clock.fullYear - NewDate(profilePerson.dateOfBirth).fullYear

\* C24: the profile page marks the person as catch-up eligible exactly when
\* the age of the person on December 31 of the current year is at least 50.
C24_CatchUpByYearEndAge ==
    profile.rendered => (profile.catchUpEligible <=> AgeAtYearEnd >= 50)

\* C25: the contribution room shown adds the 401(k) and the IRA catch-up
\* from age 50 and the HSA catch-up from age 55 only; at 50 to 54 the HSA
\* limit shown is the base limit.  The age is the one the page shows.
C25_CatchUpPerAccountFamily ==
    (profile.rendered /\ profile.limits # Undefined) =>
        LET limits == profile.limits
            With(base, catchUp, from) ==
                formatCurrency(IF profile.age >= from THEN base + catchUp ELSE base)
        IN /\ profile.contributionStats.k401 =
                With(limits.traditional401kLimit, limits.catchUp401kLimit, 50)
           /\ profile.contributionStats.ira =
                With(limits.traditionalIraLimit, limits.catchUpIraLimit, 50)
           /\ profile.contributionStats.hsa =
                With(limits.hsaIndividualLimit, limits.catchUpHsaLimit, 55)

-----------------------------------------------------------------------------
(* The dialogs in the document: the effect each form registers on mount    *)
(* (focus of the first input, keydown listener), the focus trap of          *)
(* AddMarriageForm and the Tab order of the browser.                        *)

\* the elements of a dialog that the selector of the focus trap matches
\* ('button, [href], input, select, textarea, ...'), in document order
FocusableElements(kind, endDate) ==
    LET names ==
          CASE kind = "AddMarriageForm" ->
                 <<"close", "spouseFirstName", "spouseLastName", "marriageDate",
                   "status">>
                 \o (IF endDate THEN <<"endDate">> ELSE <<>>)
                 \o <<"cancel", "submit">>
            [] kind = "AddEmploymentForm" ->
                 <<"close", "employerId", "addEmployer", "jobTitle",
                   "employmentType", "startDate", "isCurrent">>
                 \o (IF endDate THEN <<"endDate">> ELSE <<>>)
                 \o <<"retirementPlanEligible", "cancel", "submit">>
            [] kind = "EmployerForm" ->
                 <<"close", "name", "ein", "addressLine1", "addressLine2",
                   "city", "state", "zipCode", "cancel", "submit">>
            [] kind = "IncomeForm" ->
                 <<"close", "year", "annualSalary", "bonus",
                   "otherCompensation", "w2Wages", "cancel", "submit">>
            [] OTHER -> <<>>
    IN [i \in 1..Len(names) |-> <<kind, names[i]>>]

\* the disabled attribute: the submit button while the mutation of its form
\* is pending, the Tax Year input of an IncomeForm that edits
Disabled(el, d, pending) ==
    \/ el[2] = "submit" /\ el[1] \in pending
    \/ el = <<"IncomeForm", "year">> /\ d.isEditing

\* the default action of Tab / Shift+Tab: the next element of the document
\* that is not disabled, in document order.  Body stands for everything
\* outside the dialogs: the page behind them and the browser's own controls.
DefaultTab(from, shiftKey) ==
    LET doc == <<Body>> \o FocusableElements(dialog.kind, showEndDate)
                 \o (IF showEmployerForm
                     THEN FocusableElements("EmployerForm", FALSE) ELSE <<>>)
        n == Len(doc)
        i == CHOOSE j \in 1..n : doc[j] = from
        At(k) == doc[((i - 1 + (IF shiftKey THEN n - k ELSE k)) % n) + 1]
        steps == CHOOSE k \in 1..n :
                    /\ ~Disabled(At(k), dialog, isPending)
                    /\ \A l \in 1..(k - 1) : Disabled(At(l), dialog, isPending)
    IN At(steps)

\* handleKeyDown of the listener l, with the focus on active: whether it
\* calls onClose, whether it calls preventDefault, and where the focus is
\* afterwards (focus() does nothing on a disabled element)
handleKeyDown_IgnoresNested(l, key, shiftKey, active) ==
    LET focusableElements == FocusableElements(l.owner, showEndDate)
        firstElement == focusableElements[1]
        lastElement == focusableElements[Len(focusableElements)]
        trap == l.owner = "AddMarriageForm" /\ key = "Tab"
    IN [onClose |-> key = "Escape",
        preventDefault |-> trap /\ \/ shiftKey /\ active = firstElement
                                   \/ ~shiftKey /\ active = lastElement,
        active |-> IF trap /\ shiftKey /\ active = firstElement
                      /\ ~Disabled(lastElement, dialog, isPending)
                   THEN lastElement
                   ELSE IF trap /\ ~shiftKey /\ active = lastElement
                           /\ ~Disabled(firstElement, dialog, isPending)
                        THEN firstElement
                        ELSE active]

handleKeyDown(l, key, shiftKey, active) ==
    LET focusableElements == FocusableElements(l.owner, showEndDate)
        firstElement == focusableElements[1]
        lastElement == focusableElements[Len(focusableElements)]
        trap == l.owner = "AddMarriageForm" /\ key = "Tab"
    IN [onClose |-> key = "Escape"
                      /\ (l.owner = "AddEmploymentForm" => ~l.showEmployerForm),
        preventDefault |-> trap /\ \/ shiftKey /\ active = firstElement
                                   \/ ~shiftKey /\ active = lastElement,
        active |-> IF trap /\ shiftKey /\ active = firstElement
                      /\ ~Disabled(lastElement, dialog, isPending)
                   THEN lastElement
                   ELSE IF trap /\ ~shiftKey /\ active = lastElement
                           /\ ~Disabled(firstElement, dialog, isPending)
                        THEN firstElement
                        ELSE active]

\* document dispatches a keydown event to the listeners ls in their order.
\* flushed: React renders the state update of a handler before the next
\* listener is invoked, which removes the listeners that follow (their
\* components are unmounted or their effects run again).
RECURSIVE dispatchEvent(_, _, _, _, _)
dispatchEvent(ls, key, shiftKey, flushed, acc) ==
    IF ls = <<>>
    THEN acc
    ELSE LET r == handleKeyDown(Head(ls), key, shiftKey, acc.active)
             next == [closed |-> acc.closed
                                   \cup (IF r.onClose THEN {Head(ls).owner} ELSE {}),
                      preventDefault |-> acc.preventDefault \/ r.preventDefault,
                      active |-> r.active]
         IN IF r.onClose /\ flushed
            THEN next
            ELSE dispatchEvent(Tail(ls), key, shiftKey, flushed, next)

\* the commit of a render that leaves the dialog d (with the nested
\* EmployerForm when nested) mounted and runs the useEffect of the components
\* in rerun: the cleanups remove their listeners, then the effects run,
\* the child's before the parent's; each focuses its first input (an
\* AddEmploymentForm has none, focus() does nothing on a disabled input) and
\* adds its listener.  The listeners of unmounted components are removed,
\* and the focus of an element that is gone falls to the body.
Commit(d, nested, endDate, pending, rerun, active) ==
    LET mounted == ({d.kind} \ {"none"})
                     \cup (IF nested THEN {"EmployerForm"} ELSE {})
        elements == FocusableElements(d.kind, endDate)
                      \o (IF nested
                          THEN FocusableElements("EmployerForm", FALSE) ELSE <<>>)
        kept == IF \E i \in 1..Len(elements) : elements[i] = active
                THEN active ELSE Body
        firstInput(kind) == FocusableElements(kind, endDate)[2]
        afterChild == IF nested /\ "EmployerForm" \in rerun
                      THEN firstInput("EmployerForm")
                      ELSE kept
        afterParent == IF /\ d.kind \in rerun \cap {"AddMarriageForm", "IncomeForm"}
                          /\ ~Disabled(firstInput(d.kind), d, pending)
                       THEN firstInput(d.kind)
                       ELSE afterChild
    IN /\ dialog' = d
       /\ showEmployerForm' = nested
       /\ showEndDate' = endDate
       /\ isPending' = pending
       /\ listeners' =
            SelectSeq(listeners, LAMBDA l : l.owner \in mounted \ rerun)
            \o (IF nested /\ "EmployerForm" \in rerun
                THEN <<[owner |-> "EmployerForm", showEmployerForm |-> nested]>>
                ELSE <<>>)
            \o (IF d.kind \in rerun \ {"none"}
                THEN <<[owner |-> d.kind, showEmployerForm |-> nested]>>
                ELSE <<>>)
       /\ activeElement' = afterParent
       /\ UNCHANGED <<profilePerson, profile, clientVars, viewVars, cacheVars,
                      formVars, listVars>>

\* a view mounts a dialog: MarriageHistory its AddMarriageForm,
\* EmploymentList its AddEmploymentForm, or an IncomeForm is rendered with
\* or without an income to edit
OpenModal ==
    /\ dialog = NoDialog
    /\ \E d \in {[kind |-> "AddMarriageForm", isEditing |-> FALSE],
                 [kind |-> "AddEmploymentForm", isEditing |-> FALSE],
                 [kind |-> "IncomeForm", isEditing |-> FALSE],
                 [kind |-> "IncomeForm", isEditing |-> TRUE]} :
          Commit(d, FALSE, FALSE, {}, {d.kind}, activeElement)

\* the Add New Employer button of AddEmploymentForm: the click focuses the
\* button, setShowEmployerForm(true) mounts the nested EmployerForm
OpenEmployerForm ==
    /\ dialog.kind = "AddEmploymentForm"
    /\ ~showEmployerForm
    /\ Commit(dialog, TRUE, showEndDate, isPending,
              {"EmployerForm", "AddEmploymentForm"},
              <<"AddEmploymentForm", "addEmployer">>)

\* the user presses Escape, Tab or Shift+Tab
KeyDown(key, shiftKey) ==
    /\ dialog # NoDialog
    /\ \E flushed \in BOOLEAN :
       LET e == dispatchEvent(listeners, key, shiftKey, flushed,
                              [closed |-> {}, preventDefault |-> FALSE,
                               active |-> activeElement])
           moved == IF key = "Tab" /\ ~e.preventDefault
                    THEN DefaultTab(e.active, shiftKey)
                    ELSE e.active
       IN \E active \in (IF e.active = Body THEN {Body, moved} ELSE {moved}) :
             IF dialog.kind \in e.closed
             THEN Commit(NoDialog, FALSE, FALSE, {}, {}, active)
             ELSE IF "EmployerForm" \in e.closed
                  THEN Commit(dialog, FALSE, showEndDate,
                              isPending \ {"EmployerForm"}, {dialog.kind}, active)
                  ELSE Commit(dialog, showEmployerForm, showEndDate, isPending,
                              {}, active)

\* a component renders again.  from = "parent": the view that mounted the
\* dialog (a query it reads delivered new data); it passes a new onClose
\* function to the dialog.  from = "dialog": the dialog itself (a character
\* typed, a status or checkbox change that shows or hides the End Date, new
\* data of the employers query); it passes a new onClose function to the
\* nested EmployerForm.  The effect of a component runs again when its
\* onClose changed.  No view of the repository mounts IncomeForm.
Rerender ==
    /\ dialog # NoDialog
    /\ \E from \in {"parent", "dialog"} :
       \E endDate \in (IF from = "dialog"
                          /\ dialog.kind \in {"AddMarriageForm", "AddEmploymentForm"}
                       THEN BOOLEAN ELSE {showEndDate}) :
          /\ from = "parent" => dialog.kind # "IncomeForm"
          /\ Commit(dialog, showEmployerForm, endDate, isPending,
                    (IF from = "parent" THEN {dialog.kind} ELSE {})
                      \cup (IF showEmployerForm THEN {"EmployerForm"} ELSE {}),
                    activeElement)

\* handleSubmit of the topmost dialog with valid fields: the mutation is
\* pending and the submit button disabled.  A browser may move the focus
\* from a button that becomes disabled to the body.
Submit ==
    /\ dialog # NoDialog
    /\ LET top == IF showEmployerForm THEN "EmployerForm" ELSE dialog.kind
       IN /\ top \notin isPending
          /\ \E active \in (IF activeElement = <<top, "submit">>
                            THEN {activeElement, Body} ELSE {activeElement}) :
                Commit(dialog, showEmployerForm, showEndDate,
                       isPending \cup {top}, {}, active)

\* the request of a pending mutation settles.  Failure: the form renders
\* again with its button enabled.  Success of the nested EmployerForm:
\* handleEmployerCreated closes it; success of the dialog: the view closes it.
Settle ==
    \E kind \in isPending : \E ok \in BOOLEAN :
       IF ~ok
       THEN Commit(dialog, showEmployerForm, showEndDate, isPending \ {kind},
                   IF showEmployerForm /\ kind = dialog.kind
                   THEN {"EmployerForm"} ELSE {},
                   activeElement)
       ELSE IF kind = "EmployerForm"
            THEN Commit(dialog, FALSE, showEndDate, isPending \ {kind},
                        {dialog.kind}, activeElement)
            ELSE Commit(NoDialog, FALSE, FALSE, {}, {}, activeElement)

\* the dialogs of the views, from a page without a dialog
DialogSpec ==
    /\ ClientInit
    /\ [][\/ OpenModal
          \/ OpenEmployerForm
          \/ \E key \in {"Escape", "Tab"}, shiftKey \in BOOLEAN :
                KeyDown(key, shiftKey)
          \/ Rerender
          \/ Submit
          \/ Settle]_vars

-----------------------------------------------------------------------------
(* Claims about the dialogs *)

\* C28: Escape closes only the topmost dialog.  While AddEmploymentForm has
\* its nested EmployerForm open, an Escape press closes the EmployerForm and
\* leaves AddEmploymentForm open, in whichever order the listeners run; with
\* no nested form open, an Escape press closes the dialog.
C28_EscapeClosesTopmostOnly ==
    [][(\E shiftKey \in BOOLEAN : KeyDown("Escape", shiftKey)) =>
          /\ showEmployerForm => (~showEmployerForm' /\ dialog' = dialog)
          /\ ~showEmployerForm => dialog' = NoDialog]_vars

\* the nested EmployerForm was closed with the focus in it, and
\* AddEmploymentForm is still open with its listener registered again
C28_Witness ==
    /\ dialog.kind = "AddEmploymentForm"
    /\ ~showEmployerForm
    /\ isPending = {}
    /\ activeElement = Body
    /\ listeners = <<[owner |-> "AddEmploymentForm", showEmployerForm |-> FALSE]>>

\* C29: while the Add Marriage dialog is open, a Tab or Shift+Tab press with
\* the focus in the dialog leaves the focus in the dialog, in every state of
\* the form.
C29_FocusTrapped ==
    [][(/\ dialog.kind = "AddMarriageForm"
        /\ activeElement[1] = "AddMarriageForm"
        /\ \E shiftKey \in BOOLEAN : KeyDown("Tab", shiftKey))
          => activeElement'[1] = "AddMarriageForm"]_vars

\* C30: a form dialog focuses its first input when it opens, and no render
\* while it stays open moves the focus to a first input again.
C30_FocusFirstInputOnce ==
    [][/\ OpenModal =>
             (dialog'.kind \in {"AddMarriageForm", "IncomeForm"} =>
                 activeElement' = FocusableElements(dialog'.kind, FALSE)[2])
       /\ OpenEmployerForm => activeElement' = <<"EmployerForm", "name">>
       /\ (Rerender /\ activeElement'[2] \in {"spouseFirstName", "name", "year"})
             => activeElement' = activeElement]_vars

====
